---------------------------- MODULE Spec2Model ----------------------------
(***************************************************************************)
(* UAP (UDP Application Protocol): the servers of srikrishna/Server        *)
(* (server.py, server_uap.py), the asyncio client src/client.py and the    *)
(* threaded client srikrishna/Client/client.py, modelled as state          *)
(* machines over byte-level datagrams.                                     *)
(***************************************************************************)
EXTENDS Integers, Sequences, FiniteSets, TLC

(***************************************************************************)
(* Bounds of the model.                                                    *)
(***************************************************************************)
\* largest client sequence number carried by a datagram offered to a server
MaxSeq == 2
\* largest logical clock value carried by a datagram offered to an endpoint
MaxPktClock == 1
\* the server stops taking datagrams once its clock would pass this value
MaxClock == 3
\* the server stops sending once its sequence counter reaches this value
MaxServerSeq == 3
\* wall-clock seconds the server model runs for
MaxTime == 1
\* lines of input the asyncio client is given at most
MaxLines == 2
\* the asyncio client stops taking datagrams once its clock would pass this
MaxClientClock == 8
\* the threaded client stops taking datagrams once its clock would pass this
MaxThreadClock == 4
\* lines of input the threaded client is given at most
MaxThreadLines == 1
\* seconds past INACTIVITY_LIMIT for which datagrams still reach a server
\* whose sweeper is watched
SweepSlack == 1
\* largest value of a header field handed to an encoder (two bytes long)
MaxField == 300

(***************************************************************************)
(* Wire constants (identical in every implementation).                     *)
(***************************************************************************)
MAGIC == 50273
VERSION == 1
CMD_HELLO == 0
CMD_DATA == 1
CMD_ALIVE == 2
CMD_GOODBYE == 3
\* a command byte outside the protocol, and wrong magic / version values
CMD_UNKNOWN == 4
BAD_MAGIC == 50274
BAD_VERSION == 2

\* field widths in bytes of "!H B B I I Q d" (and of "!H B B I I Q Q")
HDR_FMT == <<2, 1, 1, 4, 4, 8, 8>>

RECURSIVE SumSeq(_)
SumSeq(s) == IF s = <<>> THEN 0 ELSE Head(s) + SumSeq(Tail(s))

\* struct.calcsize(HDR_FMT)
HDR_SIZE == SumSeq(HDR_FMT)

Max(a, b) == IF a >= b THEN a ELSE b

(***************************************************************************)
(* struct.pack / struct.unpack in network byte order.                      *)
(***************************************************************************)
RECURSIVE BE(_, _)
\* the w-byte big-endian encoding of the unsigned integer n
BE(n, w) == IF w = 0 THEN <<>> ELSE BE(n \div 256, w - 1) \o <<n % 256>>

RECURSIVE Unsigned(_)
\* the unsigned integer a big-endian byte string encodes
Unsigned(b) ==
    IF b = <<>> THEN 0
    ELSE Unsigned(SubSeq(b, 1, Len(b) - 1)) * 256 + b[Len(b)]

RECURSIVE Log2(_)
Log2(t) == IF t <= 1 THEN 0 ELSE 1 + Log2(t \div 2)

RECURSIVE Pow2(_)
Pow2(e) == IF e = 0 THEN 1 ELSE 2 * Pow2(e - 1)

\* struct.pack("!d", t) for a whole number of seconds 0 <= t < 2^20:
\* sign 0, biased exponent 1023 + floor(log2 t), 52-bit fraction
pack_double(t) ==
    IF t = 0 THEN BE(0, 8)
    ELSE LET e == Log2(t)
             ex == 1023 + e
             mant20 == (t - Pow2(e)) * Pow2(20 - e)
         IN  <<ex \div 16, (ex % 16) * 16 + mant20 \div 65536,
               (mant20 \div 256) % 256, mant20 % 256, 0, 0, 0, 0>>

\* struct.pack(HDR_FMT, magic, version, command, seq, sid, clock, ts), the
\* timestamp given as its 8 encoded bytes
struct_pack(magic, version, command, seq, sid, clock, ts8) ==
    BE(magic, HDR_FMT[1]) \o BE(version, HDR_FMT[2]) \o BE(command, HDR_FMT[3])
        \o BE(seq, HDR_FMT[4]) \o BE(sid, HDR_FMT[5]) \o BE(clock, HDR_FMT[6])
        \o ts8

\* byte offset (0-based) of field i of the header
Offset(i) == SumSeq(SubSeq(HDR_FMT, 1, i - 1))

\* field i of struct.unpack(HDR_FMT, data[:HDR_SIZE]) as raw bytes
Field(data, i) == SubSeq(data, Offset(i) + 1, Offset(i) + HDR_FMT[i])

\* the value Python's None
None == [none |-> TRUE]

\* a faulty unpack_header that does not look at the version (C20 must
\* reject it)
unpack_header_any_version(data) ==
    IF Len(data) < HDR_SIZE THEN None
    ELSE IF Unsigned(Field(data, 1)) # MAGIC
         THEN None
         ELSE [command |-> Unsigned(Field(data, 3)),
               seq |-> Unsigned(Field(data, 4)),
               session_id |-> Unsigned(Field(data, 5)),
               clock |-> Unsigned(Field(data, 6)),
               ts |-> Field(data, 7),
               payload |-> SubSeq(data, HDR_SIZE + 1, Len(data))]

\* ServerProtocol.unpack_header (the same text in both servers and in the
\* threaded clients): None for a short datagram or a wrong magic / version
unpack_header(data) ==
    IF Len(data) < HDR_SIZE THEN None
    ELSE IF Unsigned(Field(data, 1)) # MAGIC \/ Unsigned(Field(data, 2)) # VERSION
         THEN None
         ELSE [command |-> Unsigned(Field(data, 3)),
               seq |-> Unsigned(Field(data, 4)),
               session_id |-> Unsigned(Field(data, 5)),
               clock |-> Unsigned(Field(data, 6)),
               ts |-> Field(data, 7),
               payload |-> SubSeq(data, HDR_SIZE + 1, Len(data))]


(***************************************************************************)
(* State of a server.                                                      *)
(***************************************************************************)
VARIABLES
    impl,          \* the server program that runs: "server" or "server_uap"
    sessions,      \* self.sessions: the dict, as its items in insertion order
    server_seq,    \* self.server_seq
    server_clock,  \* self.server_clock
    now,           \* time.time(), in whole seconds
    sent,          \* the sendto calls of the last handler run, in order
    console        \* the lines the last handler run printed, in order

serverVars == <<impl, sessions, server_seq, server_clock, now, sent, console>>

(***************************************************************************)
(* State of the asyncio client src/client.py.                              *)
(***************************************************************************)
VARIABLES
    state,                     \* the global STATE
    SEQUENCE_NUMBER,           \* the global SEQUENCE_NUMBER
    CLIENT_LOGICAL_CLOCK,      \* the global CLIENT_LOGICAL_CLOCK
    NUMBER_OF_SERVER_MESSAGE,  \* the global NUMBER_OF_SERVER_MESSAGE
    SESSION_ID,                \* the global SESSION_ID, drawn in main()
    STOP_READING,              \* the global STOP_READING
    event,                     \* whether the asyncio.Event "event" is set
    pc,                        \* where the coroutine take_action is suspended
    input_task,                \* the task wait_for_one_input of run_ready
    socket_task,               \* the task read_socket_ready of run_ready
    reader_task,               \* the task read_input_and_send of run_ready_timer
    timer_socket_task,         \* the task read_socket_ready_timer
    result,                    \* what read_socket_ready_timer returned
    stdin,                     \* the lines INPUT_STREAM.readline has yet to return
    interactive,               \* INPUT_FILE_NAME is None
    c_sent,                    \* every SOCK.sendto of the client, in order
    last_rx                    \* the last datagram the client parsed and acted on

clientVars == <<state, SEQUENCE_NUMBER, CLIENT_LOGICAL_CLOCK,
                NUMBER_OF_SERVER_MESSAGE, SESSION_ID, STOP_READING, event, pc,
                input_task, socket_task, reader_task, timer_socket_task, result,
                stdin, interactive, c_sent, last_rx>>

(***************************************************************************)
(* State of the threaded client srikrishna/Client/client.py.               *)
(***************************************************************************)
VARIABLES
    self_seq,          \* self.seq
    self_clock,        \* self.clock
    self_running,      \* self.running
    self_hello_ack,    \* hasattr(self, "hello_ack")
    self_send_q,       \* self.send_q, oldest item first
    self_session_id,   \* self.session_id
    pending_packets,   \* the local pending_packets of run()
    main_pc,           \* where the main thread is in run()
    main_step,         \* where main is within a bump-and-send
    main_reg,          \* the value of self.clock main has read (0 when unused)
    reader_pc,         \* where the reader thread is
    reader_line,       \* the local "line" of reader()
    reader_reg,        \* the value of self.clock the reader has read
    receiver_pc,       \* where the receiver thread is
    receiver_reg,      \* max(self.clock, rcvd_clock) as the receiver computed it
    receiver_cmd,      \* the command of the packet the receiver is handling
    t_stdin,           \* the lines sys.stdin has yet to yield
    t_sent             \* every sendto of the threaded client, in order

threadVars == <<self_seq, self_clock, self_running, self_hello_ack, self_send_q,
                self_session_id, pending_packets, main_pc, main_step, main_reg,
                reader_pc, reader_line, reader_reg, receiver_pc, receiver_reg,
                receiver_cmd, t_stdin, t_sent>>

(***************************************************************************)
(* State of the threaded client srikrishna/Client/client_uap.py.           *)
(***************************************************************************)
VARIABLES
    client_uap         \* the Client object and the locals of its three threads

(***************************************************************************)
(* State of the channel from one client to the server.                     *)
(***************************************************************************)
VARIABLES
    channel            \* what the client has sent and what became of it

(***************************************************************************)
(* State of one message on its way through an encoder and a decoder.       *)
(***************************************************************************)
VARIABLES
    codec              \* the fields given, the datagram, the fields read back

\* what a step of one program leaves alone: the state of the other programs
besideChannel == <<clientVars, threadVars, client_uap, codec>>
besideServer == <<besideChannel, channel>>
besideClient == <<serverVars, threadVars, client_uap, channel, codec>>
besideThreaded == <<serverVars, clientVars, client_uap, channel, codec>>
besideUap == <<serverVars, clientVars, threadVars, channel, codec>>
besideCodec == <<serverVars, clientVars, threadVars, client_uap, channel>>

\* session ids and source addresses of the datagrams offered to a server
SIDs == {1, 2}
Addrs == {"a", "b"}

\* INACTIVITY_LIMIT of server.py and of server_uap.py
INACTIVITY_LIMIT(program) == IF program = "server" THEN 5 ELSE 10

\* where the sweeper is watched, every client is silent from this second on
SilentFrom(program) == INACTIVITY_LIMIT(program) + SweepSlack

\* ... and the watch ends at the sweep at which the last session that can
\* exist has expired
SweepEnd(program) == SilentFrom(program) + INACTIVITY_LIMIT(program)

(***************************************************************************)
(* The dict self.sessions.                                                 *)
(***************************************************************************)
\* sid in self.sessions
Has(d, sid) == \E i \in DOMAIN d : d[i].sid = sid

\* self.sessions[sid]
Get(d, sid) == d[CHOOSE i \in DOMAIN d : d[i].sid = sid]

\* self.sessions[sid] = {...} for a new key: appended in insertion order
Insert(d, sid, expected, addr, last_seen) ==
    Append(d, [sid |-> sid, expected |-> expected, addr |-> addr,
               last_seen |-> last_seen])

\* sess["expected"] = v on the entry of sid
SetExpected(d, sid, v) ==
    [i \in DOMAIN d |-> IF d[i].sid = sid THEN [d[i] EXCEPT !.expected = v] ELSE d[i]]

\* sess["last_seen"] = v on the entry of sid
SetLastSeen(d, sid, v) ==
    [i \in DOMAIN d |-> IF d[i].sid = sid THEN [d[i] EXCEPT !.last_seen = v] ELSE d[i]]

\* a faulty "del" that leaves the entry in the dict (C8 must reject it)
Del_kept(d, sid) == d

\* del self.sessions[sid]
Del(d, sid) == SelectSeq(d, LAMBDA e : e.sid # sid)

(***************************************************************************)
(* The datagrams offered to a server.                                      *)
(***************************************************************************)
\* a datagram as a client encodes it (Client.pack_header), timestamp bytes ts8
Encode(magic, version, command, seq, sid, clock, ts8, payload) ==
    struct_pack(magic, version, command, seq, sid, clock, ts8) \o payload

\* the logical clock values datagrams carry
PktClocks == {0, MaxPktClock}

\* HELLO with the first and the last sequence number, DATA with every sequence
\* number (without payload at clock 0, with payload at the largest clock), and
\* each other command once per session
WellFormed ==
    {Encode(MAGIC, VERSION, CMD_HELLO, 0, sid, 0, pack_double(0), <<>>) :
        sid \in SIDs}
    \cup {Encode(MAGIC, VERSION, CMD_HELLO, MaxSeq, sid, MaxPktClock,
                 pack_double(0), <<>>) : sid \in SIDs}
    \cup {Encode(MAGIC, VERSION, CMD_DATA, s, sid, 0, pack_double(0), <<>>) :
        s \in 0..MaxSeq, sid \in SIDs}
    \cup {Encode(MAGIC, VERSION, CMD_DATA, s, sid, MaxPktClock, pack_double(0),
                 <<120, 10>>) : s \in 0..MaxSeq, sid \in SIDs}
    \cup {Encode(MAGIC, VERSION, c, MaxSeq, sid, MaxPktClock, pack_double(0), <<>>) :
        c \in {CMD_ALIVE, CMD_GOODBYE, CMD_UNKNOWN}, sid \in SIDs}

\* wrong magic, wrong version, and datagrams cut short of the header (empty,
\* and one byte less than the header)
Malformed ==
    {Encode(BAD_MAGIC, VERSION, c, 0, 1, MaxPktClock, pack_double(0), <<>>) :
        c \in {CMD_HELLO, CMD_DATA}}
    \cup {Encode(MAGIC, BAD_VERSION, c, 0, 1, MaxPktClock, pack_double(0), <<>>) :
        c \in {CMD_HELLO, CMD_DATA}}
    \cup {SubSeq(Encode(MAGIC, VERSION, CMD_HELLO, 0, 1, MaxPktClock,
                        pack_double(0), <<>>), 1, n) : n \in {0, HDR_SIZE - 1}}

ServerDatagrams == WellFormed \cup Malformed

\* unpack_header on the datagrams of the model, computed once
Unpacked == [d \in ServerDatagrams |-> unpack_header(d)]

(***************************************************************************)
(* Server helpers.                                                         *)
(***************************************************************************)
\* ServerProtocol.pack_header at time t: time.time() is stamped as a double
pack_header(command, seq, session_id, clock, t) ==
    struct_pack(MAGIC, VERSION, command, seq, session_id, clock, pack_double(t))

\* pack_header on the values a server of the model can stamp, computed once
Packed ==
    [command \in CMD_HELLO..CMD_GOODBYE |-> [seq \in 0..(MaxServerSeq + 2) |->
        [session_id \in SIDs |-> [clock \in 0..(MaxClock + 2) |->
            [t \in 0..Max(MaxTime + 1, SweepEnd("server_uap")) |->
                pack_header(command, seq, session_id, clock, t)]]]]]

\* self.transport.sendto(self.pack_header(cmd, seq, sid, clock), addr) at time t
SendTo(cmd, seq, sid, clock, addr, t) ==
    [dst |-> addr, data |-> Packed[cmd][seq][sid][clock][t]]

\* one printed line: its kind, the session id, the sequence number and the
\* payload text in it
Line(ev, sid, seq, text) == [ev |-> ev, sid |-> sid, seq |-> seq, text |-> text]

\* pkt["payload"].decode(errors="replace").rstrip("\n")
RECURSIVE rstrip_nl(_)
rstrip_nl(b) ==
    IF b # <<>> /\ b[Len(b)] = 10 THEN rstrip_nl(SubSeq(b, 1, Len(b) - 1)) ELSE b

\* a faulty guard under which any command creates a session (C9 must
\* reject it)
creates_session_any(cmd) == TRUE

\* "if cmd != self.CMD_HELLO: return" for a session id not in the table:
\* whether the packet creates a session
creates_session(cmd) == cmd = CMD_HELLO

\* the "expected" a new session is created with
hello_expected(cseq) == 0

\* a faulty in-order branch that leaves expected as it was (C4 must reject
\* it)
in_order_expected_kept(exp) == exp

\* sess["expected"] += 1 of the in-order branch
in_order_expected(exp) == exp + 1

\* a faulty gap branch that leaves expected at the number it just printed
\* (C30 must reject it)
gap_expected_same(cseq) == cseq

\* sess["expected"] = cseq + 1 of the gap branch
gap_expected(cseq) == cseq + 1

\* a faulty range(exp + 1, cseq), one number short (C5 must reject it)
missing_range_short(exp, cseq) == [i \in 1..(cseq - exp - 1) |-> exp + i]

\* range(exp, cseq), as a sequence
missing_range(exp, cseq) == [i \in 1..(cseq - exp) |-> exp + i - 1]

\* the lines printed by the gap branch
gap_lines(sid, exp, cseq, text) ==
    [i \in DOMAIN missing_range(exp, cseq) |->
        Line("lost", sid, missing_range(exp, cseq)[i], <<>>)]
    \o <<Line("payload", sid, cseq, text)>>

\* a faulty chain that takes every DATA below expected for a duplicate (C7
\* must reject it)
data_class_no_old(cseq, exp) ==
    IF cseq = exp THEN "in_order"
    ELSE IF cseq < exp THEN "duplicate"
    ELSE "gap"

\* the if / elif chain on cseq of server.py
data_class(cseq, exp) ==
    IF cseq = exp THEN "in_order"
    ELSE IF cseq = exp - 1 THEN "duplicate"
    ELSE IF cseq > exp THEN "gap"
    ELSE "old"

\* the if / elif chain on cseq of server_uap.py (no final else)
uap_data_class(cseq, exp) ==
    IF cseq = exp THEN "in_order"
    ELSE IF cseq = exp - 1 THEN "duplicate"
    ELSE IF cseq < exp - 1 THEN "old"
    ELSE IF cseq > exp THEN "gap"
    ELSE "none"

\* self.server_clock = max(self.server_clock, pkt["clock"]) + 1
clock_on_receive(local, remote) == Max(local, remote) + 1

\* what one handler run leaves: the server's fields, the packets it sent and
\* the lines it printed
Outcome(d, seq, clock, out, lines) ==
    [sessions |-> d, server_seq |-> seq, server_clock |-> clock,
     sent |-> out, console |-> lines]

(***************************************************************************)
(* ServerProtocol.datagram_received of server.py, run at time t on the     *)
(* server fields st = [sessions, server_seq, server_clock].                *)
(***************************************************************************)
datagram_received(st, data, addr, t) ==
    LET pkt == Unpacked[data] IN
    IF pkt = None THEN
        Outcome(st.sessions, st.server_seq, st.server_clock, <<>>,
                <<Line("malformed", 0, 0, <<>>)>>)
    ELSE
    LET clk == clock_on_receive(st.server_clock, pkt.clock)
        sid == pkt.session_id
        cmd == pkt.command
        cseq == pkt.seq
        reply(c) == <<SendTo(c, st.server_seq, sid, clk, addr, t)>>
    IN
    IF ~Has(st.sessions, sid) THEN
        IF ~creates_session(cmd) THEN
            Outcome(st.sessions, st.server_seq, clk, <<>>,
                    <<Line("unknown_session", sid, cseq, <<>>)>>)
        ELSE
            Outcome(Insert(st.sessions, sid, hello_expected(cseq), addr, t),
                    st.server_seq + 1, clk, reply(CMD_HELLO),
                    <<Line("session_created", sid, cseq, <<>>)>>)
    ELSE
    LET seen == SetLastSeen(st.sessions, sid, t)
        exp == Get(seen, sid).expected
        class == data_class(cseq, exp)
        text == rstrip_nl(pkt.payload)
    IN
    IF cmd = CMD_DATA THEN
        IF class = "in_order" THEN
            Outcome(SetExpected(seen, sid, in_order_expected(exp)),
                    st.server_seq + 1, clk, reply(CMD_ALIVE),
                    <<Line("payload", sid, cseq, text)>>)
        ELSE IF class = "duplicate" THEN
            Outcome(seen, st.server_seq + 1, clk, reply(CMD_ALIVE),
                    <<Line("duplicate", sid, cseq, <<>>)>>)
        ELSE IF class = "gap" THEN
            Outcome(SetExpected(seen, sid, gap_expected(cseq)),
                    st.server_seq + 1, clk, reply(CMD_ALIVE),
                    gap_lines(sid, exp, cseq, text))
        ELSE
            Outcome(Del(seen, sid), st.server_seq + 1, clk, reply(CMD_GOODBYE),
                    <<Line("old_packet", sid, cseq, <<>>)>>)
    ELSE IF cmd = CMD_GOODBYE THEN
        Outcome(Del(seen, sid), st.server_seq + 1, clk, reply(CMD_GOODBYE),
                <<Line("goodbye_from_client", sid, cseq, <<>>),
                  Line("session_closed", sid, cseq, <<>>)>>)
    ELSE
        Outcome(Del(seen, sid), st.server_seq + 1, clk, reply(CMD_GOODBYE),
                <<Line("unexpected_cmd", sid, cmd, <<>>)>>)

(***************************************************************************)
(* ServerProtocol.datagram_received of server_uap.py: no clock update, no  *)
(* last_seen update, no reply to a duplicate, nothing printed for a        *)
(* malformed or unknown-session datagram.                                  *)
(***************************************************************************)
uap_datagram_received(st, data, addr, t) ==
    LET pkt == Unpacked[data]
        same == Outcome(st.sessions, st.server_seq, st.server_clock, <<>>, <<>>)
    IN
    IF pkt = None THEN same
    ELSE
    LET clk == st.server_clock
        sid == pkt.session_id
        cmd == pkt.command
        cseq == pkt.seq
        reply(c) == <<SendTo(c, st.server_seq, sid, clk, addr, t)>>
    IN
    IF ~Has(st.sessions, sid) THEN
        IF ~creates_session(cmd) THEN same
        ELSE
            Outcome(Insert(st.sessions, sid, hello_expected(cseq), addr, t),
                    st.server_seq + 1, clk, reply(CMD_HELLO),
                    <<Line("session_created", sid, cseq, <<>>)>>)
    ELSE
    LET exp == Get(st.sessions, sid).expected
        class == uap_data_class(cseq, exp)
        text == rstrip_nl(pkt.payload)
    IN
    IF cmd = CMD_DATA THEN
        IF class = "in_order" THEN
            Outcome(SetExpected(st.sessions, sid, in_order_expected(exp)),
                    st.server_seq + 1, clk, reply(CMD_ALIVE),
                    <<Line("payload", sid, cseq, text)>>)
        ELSE IF class = "duplicate" THEN
            Outcome(st.sessions, st.server_seq, clk, <<>>,
                    <<Line("duplicate", sid, cseq, <<>>)>>)
        ELSE IF class = "old" THEN
            Outcome(Del(st.sessions, sid), st.server_seq + 1, clk,
                    reply(CMD_GOODBYE),
                    <<Line("old_packet", sid, cseq, <<>>)>>)
        ELSE IF class = "gap" THEN
            Outcome(SetExpected(st.sessions, sid, gap_expected(cseq)),
                    st.server_seq + 1, clk, reply(CMD_ALIVE),
                    gap_lines(sid, exp, cseq, text))
        ELSE same
    ELSE IF cmd = CMD_GOODBYE THEN
        Outcome(Del(st.sessions, sid), st.server_seq + 1, clk, reply(CMD_GOODBYE),
                <<Line("goodbye_from_client", sid, cseq, <<>>),
                  Line("session_closed", sid, cseq, <<>>)>>)
    ELSE
        Outcome(Del(st.sessions, sid), st.server_seq + 1, clk, reply(CMD_GOODBYE),
                <<Line("unexpected_cmd", sid, cmd, <<>>)>>)

\* the handler of the program that runs
Handle(program, st, data, addr, t) ==
    IF program = "server" THEN datagram_received(st, data, addr, t)
    ELSE uap_datagram_received(st, data, addr, t)

\* the server fields of the current state
Here == [sessions |-> sessions, server_seq |-> server_seq,
         server_clock |-> server_clock]

\* the server fields become those the handler run r leaves
Receive(r) ==
    /\ r.server_clock <= MaxClock
    /\ r.server_seq <= MaxServerSeq
    /\ sessions' = r.sessions
    /\ server_seq' = r.server_seq
    /\ server_clock' = r.server_clock
    /\ sent' = r.sent
    /\ console' = r.console
    /\ UNCHANGED <<impl, now>>

\* the event loop calls datagram_received(data, addr)
Deliver(data, addr) ==
    \E r \in {Handle(impl, Here, data, addr, now)} :
        /\ Receive(r)
        /\ UNCHANGED besideServer

(***************************************************************************)
(* One client of src/client.py and the channel to the server: the client   *)
(* sends HELLO and then DATA, each packet stamped with SEQUENCE_NUMBER,    *)
(* which send_message then increments; the channel hands each packet to    *)
(* the server or drops it, in the order sent.                              *)
(***************************************************************************)
\* nothing sent yet by the client of session sid at address addr
channel_init(sid, addr) ==
    [sid |-> sid, addr |-> addr, next |-> 0, dropped |-> {},
     delivered |-> <<>>, printed |-> <<>>]

\* the packets build_packet can make when SEQUENCE_NUMBER = channel.next:
\* HELLO first, DATA afterwards
channel_packets ==
    {d \in WellFormed :
        /\ Unpacked[d].session_id = channel.sid
        /\ Unpacked[d].seq = channel.next
        /\ Unpacked[d].command = IF channel.next = 0 THEN CMD_HELLO ELSE CMD_DATA}

\* the sequence numbers of the "Lost packet!" lines among lines
lost_numbers(lines) ==
    LET lost == SelectSeq(lines, LAMBDA l : l.ev = "lost")
    IN  [i \in DOMAIN lost |-> lost[i].seq]

\* the client sends a DATA and the channel drops it (a DATA is sent only
\* once the server's HELLO has been received)
channel_drop ==
    /\ channel.next > 0
    /\ channel_packets # {}
    /\ channel' = [channel EXCEPT !.next = @ + 1, !.dropped = @ \cup {channel.next}]
    /\ UNCHANGED serverVars
    /\ UNCHANGED besideChannel

\* the client sends its next packet and the server receives it; every line
\* the server prints is kept
channel_deliver(data) ==
    /\ data \in channel_packets
    /\ \E r \in {Handle(impl, Here, data, channel.addr, now)} :
            /\ Receive(r)
            /\ channel' = [channel EXCEPT
                              !.next = @ + 1,
                              !.delivered = IF channel.next = 0 THEN @
                                            ELSE Append(@, channel.next),
                              !.printed = @ \o r.console]
    /\ UNCHANGED besideChannel

(***************************************************************************)
(* ServerProtocol.check_timeouts (the same text in both servers): one      *)
(* round of the loop, a second after the previous one.                     *)
(***************************************************************************)
\* a faulty test that also expires a session exactly INACTIVITY_LIMIT old
\* (C11 must reject it)
Expired_early(program, d, t) ==
    SelectSeq(d, LAMBDA e : t - e.last_seen >= INACTIVITY_LIMIT(program))

\* the list "expired", in dict order, at time t
Expired(program, d, t) ==
    SelectSeq(d, LAMBDA e : t - e.last_seen > INACTIVITY_LIMIT(program))

\* a faulty sweep that stamps every GOODBYE of a round with the counter the
\* round started with (C29 must reject it)
check_timeouts_one_seq ==
    LET t == now + 1
        expired == Expired(impl, sessions, t)
    IN  /\ now' = t
        /\ sent' = [i \in DOMAIN expired |->
                      SendTo(CMD_GOODBYE, server_seq, expired[i].sid,
                             server_clock, expired[i].addr, t)]
        /\ console' = [i \in DOMAIN expired |->
                         Line("session_closed_timeout", expired[i].sid, 0, <<>>)]
        /\ server_seq' = server_seq + Len(expired)
        /\ sessions' = SelectSeq(sessions,
                                 LAMBDA e : ~(t - e.last_seen > INACTIVITY_LIMIT(impl)))
        /\ UNCHANGED <<impl, server_clock>>
        /\ UNCHANGED besideServer

\* a faulty sweep that sends the GOODBYEs and leaves the entries in the
\* table (C31 must reject it)
check_timeouts_keeps_entry ==
    LET t == now + 1
        expired == Expired(impl, sessions, t)
    IN  /\ now' = t
        /\ sent' = [i \in DOMAIN expired |->
                      SendTo(CMD_GOODBYE, server_seq + i - 1, expired[i].sid,
                             server_clock, expired[i].addr, t)]
        /\ console' = [i \in DOMAIN expired |->
                         Line("session_closed_timeout", expired[i].sid, 0, <<>>)]
        /\ server_seq' = server_seq + Len(expired)
        /\ sessions' = sessions
        /\ UNCHANGED <<impl, server_clock>>
        /\ UNCHANGED besideServer

check_timeouts ==
    LET t == now + 1
        expired == Expired(impl, sessions, t)
    IN  /\ now' = t
        /\ sent' = [i \in DOMAIN expired |->
                      SendTo(CMD_GOODBYE, server_seq + i - 1, expired[i].sid,
                             server_clock, expired[i].addr, t)]
        /\ console' = [i \in DOMAIN expired |->
                         Line("session_closed_timeout", expired[i].sid, 0, <<>>)]
        /\ server_seq' = server_seq + Len(expired)
        /\ sessions' = SelectSeq(sessions,
                                 LAMBDA e : ~(t - e.last_seen > INACTIVITY_LIMIT(impl)))
        /\ UNCHANGED <<impl, server_clock>>
        /\ UNCHANGED besideServer

(***************************************************************************)
(* The asyncio client src/client.py.                                       *)
(***************************************************************************)
\* states of the FSA
START == 0
HELLO_WAIT == 1
READY == 2
READY_TIMER == 3
CLOSING == 4
CLOSED == 5

\* time.time_ns() // 1000: the wall clock of the client is read as 0
now_ms == 0

\* build_header: struct.pack("!H B B I I Q Q", ...), the timestamp an
\* unsigned 64-bit integer
build_header(magic, version, command, seq, sid, logical_clock, timestamp) ==
    struct_pack(magic, version, command, seq, sid, logical_clock,
                BE(timestamp, HDR_FMT[7]))

\* build_packet with the globals it reads passed in
build_packet(command, seq, sid, logical_clock, payload) ==
    build_header(MAGIC, VERSION, command, seq, sid, logical_clock, now_ms)
        \o payload

\* what struct.unpack raises on a buffer shorter than the header
StructError == [error |-> "struct.error"]

\* parse_packet: no check of the length, of the magic or of the version
parse_packet(data) ==
    IF Len(data) < HDR_SIZE THEN StructError
    ELSE [magic |-> Unsigned(Field(data, 1)),
          version |-> Unsigned(Field(data, 2)),
          command |-> Unsigned(Field(data, 3)),
          sequence_number |-> Unsigned(Field(data, 4)),
          SESSION_ID |-> Unsigned(Field(data, 5)),
          logical_clock |-> Unsigned(Field(data, 6)),
          timestamp |-> Field(data, 7),
          payload |-> SubSeq(data, HDR_SIZE + 1, Len(data))]

is_hello(hdr) == hdr.command = CMD_HELLO
is_goodbye(hdr) == hdr.command = CMD_GOODBYE
is_alive(hdr) == hdr.command = CMD_ALIVE

\* update_logical_clock
update_logical_clock(server_logical_clock, local) ==
    Max(server_logical_clock, local) + 1

\* the bytes str.strip() removes: tab, newline, carriage return, space
Whitespace == {9, 10, 13, 32}

RECURSIVE lstrip(_)
lstrip(b) == IF b # <<>> /\ Head(b) \in Whitespace THEN lstrip(Tail(b)) ELSE b

RECURSIVE rstrip(_)
rstrip(b) ==
    IF b # <<>> /\ b[Len(b)] \in Whitespace
    THEN rstrip(SubSeq(b, 1, Len(b) - 1)) ELSE b

\* line.strip()
strip(b) == lstrip(rstrip(b))

\* the line "q"
QUIT == <<113>>

\* the lines a user types or a file holds: "x\n", "q\n"
Lines == {<<120, 10>>, <<113, 10>>}

\* INPUT_STREAM.readline(): the next line, or "" at end of input
readline(stream) == IF stream = <<>> THEN <<>> ELSE Head(stream)

\* the stream after that readline
advance(stream) == IF stream = <<>> THEN <<>> ELSE Tail(stream)

\* the line ends the input: EOF, or "q" typed at the terminal
ends_input(line, tty) == line = <<>> \/ (tty /\ strip(line) = QUIT)

(***************************************************************************)
(* The datagrams offered to the client.                                    *)
(***************************************************************************)
\* every command with both clock values, as a server packs them
ClientWellFormed ==
    {pack_header(c, 0, 1, k, 0) :
        c \in {CMD_HELLO, CMD_DATA, CMD_ALIVE, CMD_GOODBYE}, k \in PktClocks}

\* wrong magic, wrong version, a datagram one byte short of the header and
\* the empty datagram
ClientMalformed ==
    {Encode(BAD_MAGIC, VERSION, c, 0, 1, MaxPktClock, pack_double(0), <<>>) :
        c \in {CMD_HELLO, CMD_ALIVE, CMD_GOODBYE}}
    \cup {Encode(MAGIC, BAD_VERSION, c, 0, 1, MaxPktClock, pack_double(0), <<>>) :
        c \in {CMD_HELLO, CMD_ALIVE}}
    \cup {SubSeq(pack_header(CMD_ALIVE, 0, 1, 0, 0), 1, n) : n \in {0, HDR_SIZE - 1}}

ClientDatagrams == ClientWellFormed \cup ClientMalformed

\* parse_packet on the datagrams of the model, computed once
Parsed == [d \in ClientDatagrams |-> parse_packet(d)]

(***************************************************************************)
(* Control state of the client: the coroutine take_action and its tasks.   *)
(***************************************************************************)
\* the control fields of the current state
Ctl == [pc |-> pc, input_task |-> input_task, socket_task |-> socket_task,
        reader_task |-> reader_task, timer_socket_task |-> timer_socket_task,
        STOP_READING |-> STOP_READING, event |-> event]

\* print_one_way_latency divides by NUMBER_OF_SERVER_MESSAGE
print_one_way_latency(n) == IF n = 0 THEN "crashed" ELSE "exited"

\* take_action dispatching on STATE = s: the handler it calls runs up to its
\* first await. run_ready creates its two tasks (wait_for_one_input passes
\* event.wait() at once if the event is set), run_ready_timer creates its two
\* tasks (read_input_and_send resets STOP_READING and clears the event),
\* run_closed closes the socket, prints the latency and exits.
take_action(s, c, n) ==
    CASE s = HELLO_WAIT -> [c EXCEPT !.pc = "hello_wait"]
      [] s = READY ->
            [c EXCEPT !.pc = "ready",
                      !.input_task = IF c.event THEN "reading" ELSE "wait_event",
                      !.socket_task = "recv"]
      [] s = READY_TIMER ->
            [c EXCEPT !.pc = "ready_timer", !.reader_task = "reading",
                      !.STOP_READING = FALSE, !.event = FALSE,
                      !.timer_socket_task = "recv"]
      [] s = CLOSING -> [c EXCEPT !.pc = "closing"]
      [] s = CLOSED -> [c EXCEPT !.pc = print_one_way_latency(n)]

\* the control fields become those of c
Apply(c) ==
    /\ pc' = c.pc
    /\ input_task' = c.input_task
    /\ socket_task' = c.socket_task
    /\ reader_task' = c.reader_task
    /\ timer_socket_task' = c.timer_socket_task
    /\ STOP_READING' = c.STOP_READING
    /\ event' = c.event

\* the process is alive: it has neither exited nor died of an exception
Running == pc \notin {"exited", "crashed"}

\* parse_packet raised
raised(hdr) == "error" \in DOMAIN hdr

\* event.set(): a task blocked in event.wait() is woken
event_set(task) == IF task = "wait_event" THEN "woken" ELSE task

\* the tasks states asyncio.wait counts as done / as pending
Finished == {"done", "failed"}
Pending == {"wait_event", "woken", "reading", "recv"}

\* an uncaught exception in take_action: asyncio.run cancels every task and
\* the process ends
Crash ==
    /\ pc' = "crashed"
    /\ UNCHANGED <<state, SEQUENCE_NUMBER, CLIENT_LOGICAL_CLOCK,
                   NUMBER_OF_SERVER_MESSAGE, SESSION_ID, STOP_READING, event,
                   input_task, socket_task, reader_task, timer_socket_task,
                   result, stdin, interactive, c_sent, last_rx>>

\* run_start: send_hello stamps the clock, then ticks it; run_start ticks it
\* again
run_start ==
    /\ pc = "start"
    /\ c_sent' = Append(c_sent, build_packet(CMD_HELLO, SEQUENCE_NUMBER, SESSION_ID,
                                             CLIENT_LOGICAL_CLOCK, <<>>))
    /\ SEQUENCE_NUMBER' = SEQUENCE_NUMBER + 1
    /\ CLIENT_LOGICAL_CLOCK' = CLIENT_LOGICAL_CLOCK + 2
    /\ state' = HELLO_WAIT
    /\ Apply(take_action(HELLO_WAIT, Ctl, NUMBER_OF_SERVER_MESSAGE))
    /\ UNCHANGED <<NUMBER_OF_SERVER_MESSAGE, SESSION_ID, result, stdin,
                   interactive, last_rx>>

\* run_hello_wait when sock_recv returns data
run_hello_wait(data) ==
    /\ pc = "hello_wait"
    /\ LET hdr == Parsed[data]
       IN  IF raised(hdr) THEN Crash
           ELSE LET s == IF is_hello(hdr) THEN READY ELSE CLOSED
                    clock == update_logical_clock(hdr.logical_clock,
                                                  CLIENT_LOGICAL_CLOCK)
                IN  /\ clock <= MaxClientClock
                    /\ NUMBER_OF_SERVER_MESSAGE' = NUMBER_OF_SERVER_MESSAGE + 1
                    /\ CLIENT_LOGICAL_CLOCK' = clock
                    /\ state' = s
                    /\ last_rx' = data
                    /\ Apply(take_action(s, Ctl, NUMBER_OF_SERVER_MESSAGE + 1))
                    /\ UNCHANGED <<SEQUENCE_NUMBER, SESSION_ID, result, stdin,
                                   interactive, c_sent>>

\* run_hello_wait when wait_for times out
run_hello_wait_timeout ==
    /\ pc = "hello_wait"
    /\ c_sent' = Append(c_sent, build_packet(CMD_GOODBYE, SEQUENCE_NUMBER,
                                             SESSION_ID, CLIENT_LOGICAL_CLOCK, <<>>))
    /\ SEQUENCE_NUMBER' = SEQUENCE_NUMBER + 1
    /\ CLIENT_LOGICAL_CLOCK' = CLIENT_LOGICAL_CLOCK + 2
    /\ state' = CLOSING
    /\ Apply(take_action(CLOSING, Ctl, NUMBER_OF_SERVER_MESSAGE))
    /\ UNCHANGED <<NUMBER_OF_SERVER_MESSAGE, SESSION_ID, result, stdin,
                   interactive, last_rx>>

\* wait_for_one_input resuming from event.wait()
wait_for_one_input_wake ==
    /\ Running
    /\ input_task = "woken"
    /\ input_task' = IF state = CLOSING \/ state = CLOSED THEN "done" ELSE "reading"
    /\ UNCHANGED <<state, SEQUENCE_NUMBER, CLIENT_LOGICAL_CLOCK,
                   NUMBER_OF_SERVER_MESSAGE, SESSION_ID, STOP_READING, event, pc,
                   socket_task, reader_task, timer_socket_task, result, stdin,
                   interactive, c_sent, last_rx>>

\* wait_for_one_input when readline returns
wait_for_one_input ==
    /\ Running
    /\ input_task = "reading"
    /\ LET line == readline(stdin)
       IN  /\ stdin' = advance(stdin)
           /\ input_task' = "done"
           /\ IF ends_input(line, interactive)
              THEN /\ state' = CLOSING
                   /\ UNCHANGED <<SEQUENCE_NUMBER, CLIENT_LOGICAL_CLOCK, c_sent>>
              ELSE /\ c_sent' = Append(c_sent,
                                       build_packet(CMD_DATA, SEQUENCE_NUMBER,
                                                    SESSION_ID, CLIENT_LOGICAL_CLOCK,
                                                    line))
                   /\ SEQUENCE_NUMBER' = SEQUENCE_NUMBER + 1
                   /\ CLIENT_LOGICAL_CLOCK' = CLIENT_LOGICAL_CLOCK + 1
                   /\ UNCHANGED state
    /\ UNCHANGED <<NUMBER_OF_SERVER_MESSAGE, SESSION_ID, STOP_READING, event, pc,
                   socket_task, reader_task, timer_socket_task, result,
                   interactive, last_rx>>

\* read_socket_ready when sock_recv returns data: an exception of
\* parse_packet ends the task, which nobody awaits
read_socket_ready(data) ==
    /\ pc = "ready"
    /\ socket_task = "recv"
    /\ LET hdr == Parsed[data]
       IN  IF raised(hdr)
           THEN /\ socket_task' = "failed"
                /\ UNCHANGED <<NUMBER_OF_SERVER_MESSAGE, CLIENT_LOGICAL_CLOCK,
                               last_rx>>
           ELSE LET clock == update_logical_clock(hdr.logical_clock,
                                                  CLIENT_LOGICAL_CLOCK)
                IN  /\ clock <= MaxClientClock
                    /\ NUMBER_OF_SERVER_MESSAGE' = NUMBER_OF_SERVER_MESSAGE + 1
                    /\ CLIENT_LOGICAL_CLOCK' = clock
                    /\ last_rx' = data
                    /\ socket_task' = IF is_alive(hdr) THEN "recv" ELSE "done"
    /\ UNCHANGED <<state, SEQUENCE_NUMBER, SESSION_ID, STOP_READING, event, pc,
                   input_task, reader_task, timer_socket_task, result, stdin,
                   interactive, c_sent>>

\* run_ready when asyncio.wait returns: the pending task is cancelled and
\* gathered, which yields to the event loop
run_ready_cancel ==
    /\ pc = "ready"
    /\ input_task \in Finished \/ socket_task \in Finished
    /\ pc' = "ready_gather"
    /\ input_task' = IF input_task \in Pending THEN "cancelled" ELSE input_task
    /\ socket_task' = IF socket_task \in Pending THEN "cancelled" ELSE socket_task
    /\ UNCHANGED <<state, SEQUENCE_NUMBER, CLIENT_LOGICAL_CLOCK,
                   NUMBER_OF_SERVER_MESSAGE, SESSION_ID, STOP_READING, event,
                   reader_task, timer_socket_task, result, stdin, interactive,
                   c_sent, last_rx>>

\* the members of "done" in run_ready
ready_done ==
    {t \in {"input", "socket"} :
        (t = "input" /\ input_task \in Finished)
        \/ (t = "socket" /\ socket_task \in Finished)}

\* run_ready after the gather: list(done)[0] is any member of done
run_ready ==
    /\ pc = "ready_gather"
    /\ IF state = CLOSING
       THEN /\ c_sent' = Append(c_sent,
                                build_packet(CMD_GOODBYE, SEQUENCE_NUMBER, SESSION_ID,
                                             CLIENT_LOGICAL_CLOCK, <<>>))
            /\ SEQUENCE_NUMBER' = SEQUENCE_NUMBER + 1
            /\ CLIENT_LOGICAL_CLOCK' = CLIENT_LOGICAL_CLOCK + 1
            /\ Apply(take_action(CLOSING, Ctl, NUMBER_OF_SERVER_MESSAGE))
            /\ UNCHANGED state
       ELSE IF state = CLOSED
       THEN /\ Apply(take_action(CLOSED, Ctl, NUMBER_OF_SERVER_MESSAGE))
            /\ UNCHANGED <<state, SEQUENCE_NUMBER, CLIENT_LOGICAL_CLOCK, c_sent>>
       ELSE \E done_task \in ready_done :
                IF done_task = "socket"
                THEN /\ state' = CLOSED
                     /\ Apply(take_action(CLOSED, Ctl, NUMBER_OF_SERVER_MESSAGE))
                     /\ UNCHANGED <<SEQUENCE_NUMBER, CLIENT_LOGICAL_CLOCK, c_sent>>
                ELSE /\ CLIENT_LOGICAL_CLOCK' = CLIENT_LOGICAL_CLOCK + 1
                     /\ state' = READY_TIMER
                     /\ Apply(take_action(READY_TIMER, Ctl, NUMBER_OF_SERVER_MESSAGE))
                     /\ UNCHANGED <<SEQUENCE_NUMBER, c_sent>>
    /\ UNCHANGED <<NUMBER_OF_SERVER_MESSAGE, SESSION_ID, result, stdin,
                   interactive, last_rx>>

\* read_input_and_send when readline returns: one pass of its loop. The task
\* outlives run_ready_timer, which never cancels it.
read_input_and_send ==
    /\ Running
    /\ reader_task = "reading"
    /\ LET line == readline(stdin)
       IN  /\ stdin' = advance(stdin)
           /\ IF ends_input(line, interactive)
              THEN /\ CLIENT_LOGICAL_CLOCK' = CLIENT_LOGICAL_CLOCK + 1
                   /\ state' = CLOSING
                   /\ STOP_READING' = TRUE
                   /\ event' = TRUE
                   /\ reader_task' = "done"
                   /\ UNCHANGED <<SEQUENCE_NUMBER, c_sent>>
              ELSE /\ c_sent' = Append(c_sent,
                                       build_packet(CMD_DATA, SEQUENCE_NUMBER,
                                                    SESSION_ID,
                                                    CLIENT_LOGICAL_CLOCK + 1, line))
                   /\ SEQUENCE_NUMBER' = SEQUENCE_NUMBER + 1
                   /\ CLIENT_LOGICAL_CLOCK' = CLIENT_LOGICAL_CLOCK + 2
                   /\ event' = STOP_READING
                   /\ reader_task' = IF STOP_READING THEN "done" ELSE "reading"
                   /\ UNCHANGED <<state, STOP_READING>>
    /\ input_task' = event_set(input_task)
    /\ UNCHANGED <<NUMBER_OF_SERVER_MESSAGE, SESSION_ID, pc, socket_task,
                   timer_socket_task, result, interactive, last_rx>>

\* read_socket_ready_timer when sock_recv returns data. Once run_ready_timer
\* has returned, the next sock_recv on the socket takes the place of this
\* task's reader, so the task gets a datagram only in READY_TIMER.
read_socket_ready_timer(data) ==
    /\ pc = "ready_timer"
    /\ timer_socket_task = "recv"
    /\ IF raised(Parsed[data]) THEN TRUE
       ELSE update_logical_clock(Parsed[data].logical_clock, CLIENT_LOGICAL_CLOCK)
                <= MaxClientClock
    /\ timer_socket_task' = "done"
    /\ result' = data
    /\ UNCHANGED <<state, SEQUENCE_NUMBER, CLIENT_LOGICAL_CLOCK,
                   NUMBER_OF_SERVER_MESSAGE, SESSION_ID, STOP_READING, event, pc,
                   input_task, socket_task, reader_task, stdin, interactive,
                   c_sent, last_rx>>

\* the members of "done" in run_ready_timer
timer_done ==
    {t \in {"reader", "socket"} :
        (t = "reader" /\ reader_task \in Finished)
        \/ (t = "socket" /\ timer_socket_task \in Finished)}

\* run_ready_timer when asyncio.wait returns a task: list(done)[0] is any
\* member of done
run_ready_timer ==
    /\ pc = "ready_timer"
    /\ \E done_task \in timer_done :
           IF done_task = "socket"
           THEN LET hdr == Parsed[result]
                IN  IF raised(hdr) THEN Crash
                    ELSE LET s == IF is_alive(hdr) THEN READY ELSE CLOSED
                         IN  /\ NUMBER_OF_SERVER_MESSAGE' =
                                    NUMBER_OF_SERVER_MESSAGE + 1
                             /\ CLIENT_LOGICAL_CLOCK' =
                                    update_logical_clock(hdr.logical_clock,
                                                         CLIENT_LOGICAL_CLOCK)
                             /\ state' = s
                             /\ last_rx' = result
                             /\ Apply(take_action(s, [Ctl EXCEPT !.STOP_READING = TRUE],
                                                  NUMBER_OF_SERVER_MESSAGE + 1))
                             /\ UNCHANGED <<SEQUENCE_NUMBER, SESSION_ID, result,
                                            stdin, interactive, c_sent>>
           ELSE IF state = CLOSING
           THEN /\ c_sent' = Append(c_sent,
                                    build_packet(CMD_GOODBYE, SEQUENCE_NUMBER,
                                                 SESSION_ID, CLIENT_LOGICAL_CLOCK,
                                                 <<>>))
                /\ SEQUENCE_NUMBER' = SEQUENCE_NUMBER + 1
                /\ CLIENT_LOGICAL_CLOCK' = CLIENT_LOGICAL_CLOCK + 1
                /\ Apply(take_action(CLOSING, Ctl, NUMBER_OF_SERVER_MESSAGE))
                /\ UNCHANGED <<state, NUMBER_OF_SERVER_MESSAGE, SESSION_ID, result,
                               stdin, interactive, last_rx>>
           ELSE /\ state' = CLOSED
                /\ Apply(take_action(CLOSED, Ctl, NUMBER_OF_SERVER_MESSAGE))
                /\ UNCHANGED <<SEQUENCE_NUMBER, CLIENT_LOGICAL_CLOCK,
                               NUMBER_OF_SERVER_MESSAGE, SESSION_ID, result, stdin,
                               interactive, c_sent, last_rx>>

\* run_ready_timer when asyncio.wait times out with no task done
run_ready_timer_timeout ==
    /\ pc = "ready_timer"
    /\ timer_done = {}
    /\ c_sent' = Append(c_sent, build_packet(CMD_GOODBYE, SEQUENCE_NUMBER,
                                             SESSION_ID, CLIENT_LOGICAL_CLOCK, <<>>))
    /\ SEQUENCE_NUMBER' = SEQUENCE_NUMBER + 1
    /\ CLIENT_LOGICAL_CLOCK' = CLIENT_LOGICAL_CLOCK + 2
    /\ state' = CLOSING
    /\ Apply(take_action(CLOSING, [Ctl EXCEPT !.STOP_READING = TRUE],
                         NUMBER_OF_SERVER_MESSAGE))
    /\ UNCHANGED <<NUMBER_OF_SERVER_MESSAGE, SESSION_ID, result, stdin,
                   interactive, last_rx>>

\* keep_looping_for_alive when sock_recv returns data; on a packet that is
\* not ALIVE run_closing resumes and counts the packet a second time
run_closing(data) ==
    /\ pc = "closing"
    /\ LET hdr == Parsed[data]
       IN  IF raised(hdr) THEN Crash
           ELSE LET once == update_logical_clock(hdr.logical_clock,
                                                 CLIENT_LOGICAL_CLOCK)
                    twice == update_logical_clock(hdr.logical_clock, once)
                IN  /\ (IF is_alive(hdr) THEN once ELSE twice) <= MaxClientClock
                    /\ last_rx' = data
                    /\ IF is_alive(hdr)
                       THEN /\ NUMBER_OF_SERVER_MESSAGE' =
                                   NUMBER_OF_SERVER_MESSAGE + 1
                            /\ CLIENT_LOGICAL_CLOCK' = once
                            /\ UNCHANGED <<state, pc, input_task, socket_task,
                                           reader_task, timer_socket_task,
                                           STOP_READING, event>>
                       ELSE /\ NUMBER_OF_SERVER_MESSAGE' =
                                   NUMBER_OF_SERVER_MESSAGE + 2
                            /\ CLIENT_LOGICAL_CLOCK' = twice
                            /\ state' = CLOSED
                            /\ Apply(take_action(CLOSED, Ctl,
                                                 NUMBER_OF_SERVER_MESSAGE + 2))
                    /\ UNCHANGED <<SEQUENCE_NUMBER, SESSION_ID, result, stdin,
                                   interactive, c_sent>>

\* run_closing when wait_for times out
run_closing_timeout ==
    /\ pc = "closing"
    /\ state' = CLOSED
    /\ CLIENT_LOGICAL_CLOCK' = CLIENT_LOGICAL_CLOCK + 1
    /\ Apply(take_action(CLOSED, Ctl, NUMBER_OF_SERVER_MESSAGE))
    /\ UNCHANGED <<SEQUENCE_NUMBER, NUMBER_OF_SERVER_MESSAGE, SESSION_ID, result,
                   stdin, interactive, c_sent, last_rx>>

(***************************************************************************)
(* The threaded client srikrishna/Client/client.py: the main thread        *)
(* (Client.run), the reader thread and the receiver thread. A thread       *)
(* switch may fall between the read and the write of self.clock.           *)
(***************************************************************************)
\* the batch limit of Client.run
BATCH == 10

\* Client.pack_header: time.time() is read as 0
client_pack_header(command, cseq, session_id, cclock, payload) ==
    struct_pack(MAGIC, VERSION, command, cseq, session_id, cclock, pack_double(0))
        \o payload

\* Client.unpack_header on the datagrams of the model, computed once
ClientUnpacked == [d \in ClientDatagrams |-> unpack_header(d)]

\* an item of send_q is None or the bytes of a line, [bytes |-> b]

\* line.rstrip("\n")
RECURSIVE rstrip_newlines(_)
rstrip_newlines(b) ==
    IF b # <<>> /\ b[Len(b)] = 10
    THEN rstrip_newlines(SubSeq(b, 1, Len(b) - 1)) ELSE b

\* the command main is about to send, and its payload
main_command ==
    CASE main_pc = "hello" -> CMD_HELLO
      [] main_pc = "goodbye" -> CMD_GOODBYE
      [] OTHER -> CMD_DATA

main_payload == IF main_pc = "flush" THEN Head(pending_packets).bytes ELSE <<>>

\* main is at a bump_clock_event() followed by a sendto
Emitting ==
    main_pc \in {"hello", "goodbye"} \/ (main_pc = "flush" /\ pending_packets # <<>>)

\* the process runs until run() has closed the socket and returned
Alive == main_pc # "closed"

\* main: bump_clock_event reads self.clock
main_bump_load ==
    /\ Emitting
    /\ main_step = "load"
    /\ main_reg' = self_clock
    /\ main_step' = "store"
    /\ UNCHANGED <<self_seq, self_clock, self_running, self_hello_ack, self_send_q,
                   self_session_id, pending_packets, main_pc, reader_pc,
                   reader_line, reader_reg, receiver_pc, receiver_reg,
                   receiver_cmd, t_stdin, t_sent>>

\* main: bump_clock_event writes self.clock
main_bump_store ==
    /\ Emitting
    /\ main_step = "store"
    /\ self_clock' = main_reg + 1
    /\ main_step' = "send"
    /\ main_reg' = 0
    /\ UNCHANGED <<self_seq, self_running, self_hello_ack, self_send_q,
                   self_session_id, pending_packets, main_pc, reader_pc,
                   reader_line, reader_reg, receiver_pc, receiver_reg,
                   receiver_cmd, t_stdin, t_sent>>

\* main: sendto(pack_header(..., self.seq, ..., self.clock, ...)) and
\* self.seq += 1. After the HELLO main waits for the reply; after the
\* GOODBYE it sets running to False and leaves the collecting loop for the
\* loop that sends pending_packets; after a DATA it goes on with that loop.
main_send ==
    /\ Emitting
    /\ main_step = "send"
    /\ t_sent' = Append(t_sent,
                        client_pack_header(main_command, self_seq, self_session_id,
                                           self_clock, main_payload))
    /\ self_seq' = self_seq + 1
    /\ main_step' = "load"
    /\ main_pc' = IF main_pc = "hello" THEN "wait_ack" ELSE "flush"
    /\ self_running' = IF main_pc = "goodbye" THEN FALSE ELSE self_running
    /\ pending_packets' = IF main_pc = "flush" THEN Tail(pending_packets)
                          ELSE pending_packets
    /\ UNCHANGED <<self_clock, self_hello_ack, self_send_q, self_session_id,
                   main_reg, reader_pc, reader_line, reader_reg, receiver_pc,
                   receiver_reg, receiver_cmd, t_stdin>>

\* main: the loop waiting for hello_ack ends
main_wait_ack ==
    /\ main_pc = "wait_ack"
    /\ ~self_running \/ self_hello_ack
    /\ main_pc' = "top"
    /\ UNCHANGED <<self_seq, self_clock, self_running, self_hello_ack, self_send_q,
                   self_session_id, pending_packets, main_step, main_reg,
                   reader_pc, reader_line, reader_reg, receiver_pc, receiver_reg,
                   receiver_cmd, t_stdin, t_sent>>

\* main: "while self.running" of the DATA loop
main_top ==
    /\ main_pc = "top"
    /\ main_pc' = IF self_running THEN "collect" ELSE "closing"
    /\ UNCHANGED <<self_seq, self_clock, self_running, self_hello_ack, self_send_q,
                   self_session_id, pending_packets, main_step, main_reg,
                   reader_pc, reader_line, reader_reg, receiver_pc, receiver_reg,
                   receiver_cmd, t_stdin, t_sent>>

\* main: one pass of the collecting loop (batch_size is len(pending_packets))
main_collect ==
    /\ main_pc = "collect"
    /\ IF self_send_q = <<>> \/ Len(pending_packets) >= BATCH
       THEN /\ main_pc' = "flush"
            /\ UNCHANGED <<self_send_q, pending_packets>>
       ELSE /\ self_send_q' = Tail(self_send_q)
            /\ IF Head(self_send_q) = None
               THEN /\ main_pc' = "goodbye"
                    /\ UNCHANGED pending_packets
               ELSE /\ pending_packets' = Append(pending_packets, Head(self_send_q))
                    /\ UNCHANGED main_pc
    /\ UNCHANGED <<self_seq, self_clock, self_running, self_hello_ack,
                   self_session_id, main_step, main_reg, reader_pc, reader_line,
                   reader_reg, receiver_pc, receiver_reg, receiver_cmd, t_stdin,
                   t_sent>>

\* main: pending_packets is sent and cleared; "if not self.running: break"
main_flushed ==
    /\ main_pc = "flush"
    /\ pending_packets = <<>>
    /\ main_pc' = IF self_running THEN "top" ELSE "closing"
    /\ UNCHANGED <<self_seq, self_clock, self_running, self_hello_ack, self_send_q,
                   self_session_id, pending_packets, main_step, main_reg,
                   reader_pc, reader_line, reader_reg, receiver_pc, receiver_reg,
                   receiver_cmd, t_stdin, t_sent>>

\* main: the closing wait ends (TIMEOUT passed or running is False), the
\* socket is closed and run() returns
main_close ==
    /\ main_pc = "closing"
    /\ main_pc' = "closed"
    /\ self_running' = FALSE
    /\ UNCHANGED <<self_seq, self_clock, self_hello_ack, self_send_q,
                   self_session_id, pending_packets, main_step, main_reg,
                   reader_pc, reader_line, reader_reg, receiver_pc, receiver_reg,
                   receiver_cmd, t_stdin, t_sent>>

\* reader: "for line in sys.stdin" yields a line, which is stripped of its
\* newline, and bump_clock_event reads self.clock; at end of input the loop
\* ends
reader_read ==
    /\ Alive
    /\ reader_pc = "read"
    /\ IF t_stdin = <<>>
       THEN /\ reader_pc' = "tail"
            /\ UNCHANGED <<reader_line, reader_reg, t_stdin>>
       ELSE /\ reader_line' = rstrip_newlines(Head(t_stdin))
            /\ t_stdin' = Tail(t_stdin)
            /\ reader_reg' = self_clock
            /\ reader_pc' = "store"
    /\ UNCHANGED <<self_seq, self_clock, self_running, self_hello_ack, self_send_q,
                   self_session_id, pending_packets, main_pc, main_step, main_reg,
                   receiver_pc, receiver_reg, receiver_cmd, t_sent>>

\* reader: bump_clock_event writes self.clock; "q" queues None and ends the
\* loop, any other line is queued
reader_store ==
    /\ Alive
    /\ reader_pc = "store"
    /\ self_clock' = reader_reg + 1
    /\ IF reader_line = QUIT
       THEN /\ self_send_q' = Append(self_send_q, None)
            /\ reader_pc' = "tail"
       ELSE /\ self_send_q' = Append(self_send_q, [bytes |-> reader_line])
            /\ reader_pc' = "read"
    /\ reader_line' = <<>>
    /\ reader_reg' = 0
    /\ UNCHANGED <<self_seq, self_running, self_hello_ack, self_session_id,
                   pending_packets, main_pc, main_step, main_reg, receiver_pc,
                   receiver_reg, receiver_cmd, t_stdin, t_sent>>

\* reader: after the loop, "if not qsize() or queue[-1] is not None", and
\* bump_clock_event reads self.clock
reader_tail ==
    /\ Alive
    /\ reader_pc = "tail"
    /\ IF self_send_q = <<>> \/ self_send_q[Len(self_send_q)] # None
       THEN /\ reader_reg' = self_clock
            /\ reader_pc' = "tail_store"
       ELSE /\ reader_pc' = "done"
            /\ UNCHANGED reader_reg
    /\ UNCHANGED <<self_seq, self_clock, self_running, self_hello_ack, self_send_q,
                   self_session_id, pending_packets, main_pc, main_step, main_reg,
                   reader_line, receiver_pc, receiver_reg, receiver_cmd, t_stdin,
                   t_sent>>

\* reader: bump_clock_event writes self.clock and None is queued
reader_tail_store ==
    /\ Alive
    /\ reader_pc = "tail_store"
    /\ self_clock' = reader_reg + 1
    /\ self_send_q' = Append(self_send_q, None)
    /\ reader_pc' = "done"
    /\ reader_reg' = 0
    /\ UNCHANGED <<self_seq, self_running, self_hello_ack, self_session_id,
                   pending_packets, main_pc, main_step, main_reg, reader_line,
                   receiver_pc, receiver_reg, receiver_cmd, t_stdin, t_sent>>

\* receiver: recvfrom returns data. A datagram unpack_header rejects is
\* skipped; on HELLO, ALIVE and GOODBYE bump_clock_recv reads self.clock; any
\* other command ends the session.
receiver_recv(data) ==
    /\ Alive
    /\ receiver_pc = "recv"
    /\ LET pkt == ClientUnpacked[data]
       IN  IF pkt = None
           THEN UNCHANGED <<self_running, receiver_pc, receiver_reg, receiver_cmd>>
           ELSE IF pkt.command \in {CMD_HELLO, CMD_ALIVE, CMD_GOODBYE}
           THEN /\ Max(self_clock, pkt.clock) + 1 <= MaxThreadClock
                /\ receiver_reg' = Max(self_clock, pkt.clock)
                /\ receiver_cmd' = pkt.command
                /\ receiver_pc' = "store"
                /\ UNCHANGED self_running
           ELSE /\ self_running' = FALSE
                /\ UNCHANGED <<receiver_pc, receiver_reg, receiver_cmd>>
    /\ UNCHANGED <<self_seq, self_clock, self_hello_ack, self_send_q,
                   self_session_id, pending_packets, main_pc, main_step, main_reg,
                   reader_pc, reader_line, reader_reg, t_stdin, t_sent>>

\* receiver: bump_clock_recv writes self.clock; HELLO sets hello_ack,
\* GOODBYE clears running
receiver_store ==
    /\ Alive
    /\ receiver_pc = "store"
    /\ self_clock' = receiver_reg + 1
    /\ self_hello_ack' = (self_hello_ack \/ receiver_cmd = CMD_HELLO)
    /\ self_running' = (self_running /\ receiver_cmd # CMD_GOODBYE)
    /\ receiver_pc' = "recv"
    /\ receiver_reg' = 0
    /\ receiver_cmd' = CMD_HELLO
    /\ UNCHANGED <<self_seq, self_send_q, self_session_id, pending_packets,
                   main_pc, main_step, main_reg, reader_pc, reader_line,
                   reader_reg, t_stdin, t_sent>>

\* receiver: "while self.running" ends the thread
receiver_exit ==
    /\ Alive
    /\ receiver_pc = "recv"
    /\ ~self_running
    /\ receiver_pc' = "done"
    /\ UNCHANGED <<self_seq, self_clock, self_running, self_hello_ack, self_send_q,
                   self_session_id, pending_packets, main_pc, main_step, main_reg,
                   reader_pc, reader_line, reader_reg, receiver_reg, receiver_cmd,
                   t_stdin, t_sent>>

(***************************************************************************)
(* The threaded client srikrishna/Client/client_uap.py: the same three     *)
(* threads, without the wait for the server's HELLO, with one DATA in      *)
(* flight at a time. client_uap holds the fields of the Client object      *)
(* (seq, clock, running, awaiting_alive, send_q), the position of each     *)
(* thread (pc, reader_pc, receiver_pc), the locals of the threads (item,   *)
(* line, and the value of self.clock each has read), the lines sys.stdin   *)
(* has yet to yield, every sendto in order, and whether recvfrom has       *)
(* returned a HELLO.                                                       *)
(***************************************************************************)
\* the Client as __init__ leaves it, given the lines of its input
uap_init(input) ==
    [seq |-> 0, clock |-> 0, running |-> TRUE, awaiting_alive |-> FALSE,
     send_q |-> <<>>, pc |-> "hello", step |-> "load", reg |-> 0,
     item |-> None, reader_pc |-> "read", line |-> None, reader_reg |-> 0,
     receiver_pc |-> "recv", receiver_reg |-> 0, receiver_cmd |-> CMD_HELLO,
     stdin |-> input, sent |-> <<>>, hello_received |-> FALSE]

\* the command main is about to send, and its payload: (item + "\n").encode()
uap_command ==
    CASE client_uap.pc = "hello" -> CMD_HELLO
      [] client_uap.pc = "goodbye" -> CMD_GOODBYE
      [] OTHER -> CMD_DATA

uap_payload ==
    IF client_uap.pc = "data" THEN client_uap.item.bytes \o <<10>> ELSE <<>>

\* main is at a bump_clock_event() followed by a sendto
uap_emitting == client_uap.pc \in {"hello", "data", "goodbye"}

\* the process runs until run() has closed the socket and returned
uap_alive == client_uap.pc # "closed"

\* main: bump_clock_event reads self.clock
uap_bump_load ==
    /\ uap_emitting
    /\ client_uap.step = "load"
    /\ client_uap' = [client_uap EXCEPT !.reg = client_uap.clock, !.step = "store"]

\* main: bump_clock_event writes self.clock
uap_bump_store ==
    /\ uap_emitting
    /\ client_uap.step = "store"
    /\ client_uap' = [client_uap EXCEPT !.clock = client_uap.reg + 1,
                                        !.step = "send", !.reg = 0]

\* main: sendto(pack_header(..., self.seq, ..., self.clock, ...)) and
\* self.seq += 1. After the HELLO main sleeps half a second and enters the
\* DATA loop; after a DATA it sets awaiting_alive and goes round the loop;
\* after the GOODBYE it sleeps and closes.
uap_send ==
    /\ uap_emitting
    /\ client_uap.step = "send"
    /\ client_uap' =
          [client_uap EXCEPT
             !.sent = Append(@, client_pack_header(uap_command, client_uap.seq, 1,
                                                   client_uap.clock, uap_payload)),
             !.seq = @ + 1,
             !.step = "load",
             !.item = None,
             !.awaiting_alive = IF client_uap.pc = "data" THEN TRUE ELSE @,
             !.pc = IF client_uap.pc = "goodbye" THEN "closing" ELSE "loop"]

\* main: one round of "while self.running" that does something: the loop
\* ends when running is False; an item is taken from send_q when no ALIVE
\* is awaited, None ends the loop, a line is sent as DATA
uap_loop ==
    /\ client_uap.pc = "loop"
    /\ IF ~client_uap.running
       THEN client_uap' = [client_uap EXCEPT !.pc = "goodbye"]
       ELSE /\ client_uap.send_q # <<>>
            /\ ~client_uap.awaiting_alive
            /\ client_uap' =
                  [client_uap EXCEPT
                     !.send_q = Tail(@),
                     !.item = Head(client_uap.send_q),
                     !.pc = IF Head(client_uap.send_q) = None
                            THEN "goodbye" ELSE "data"]

\* main: "if time.time() - self.last_send_time > self.TIMEOUT: break"
uap_timeout ==
    /\ client_uap.pc = "loop"
    /\ client_uap.running
    /\ client_uap.awaiting_alive
    /\ client_uap' = [client_uap EXCEPT !.pc = "goodbye"]

\* main: after the GOODBYE and the sleep, running = False and the socket
\* is closed
uap_close ==
    /\ client_uap.pc = "closing"
    /\ client_uap' = [client_uap EXCEPT !.pc = "closed", !.running = FALSE]

\* reader: "for line in sys.stdin" yields a line, which is stripped of its
\* newline; "q" queues None and ends the loop; for any other line
\* bump_clock_event reads self.clock; at end of input the loop ends
uap_reader_read ==
    /\ uap_alive
    /\ client_uap.reader_pc = "read"
    /\ IF client_uap.stdin = <<>>
       THEN client_uap' = [client_uap EXCEPT !.reader_pc = "tail"]
       ELSE LET l == [bytes |-> rstrip_newlines(Head(client_uap.stdin))]
            IN  IF l.bytes = QUIT
                THEN client_uap' = [client_uap EXCEPT
                                      !.stdin = Tail(@), !.line = l,
                                      !.send_q = Append(@, None),
                                      !.reader_pc = "tail"]
                ELSE client_uap' = [client_uap EXCEPT
                                      !.stdin = Tail(@), !.line = l,
                                      !.reader_reg = client_uap.clock,
                                      !.reader_pc = "store"]

\* reader: bump_clock_event writes self.clock and the line is queued
uap_reader_store ==
    /\ uap_alive
    /\ client_uap.reader_pc = "store"
    /\ client_uap' = [client_uap EXCEPT
                        !.clock = client_uap.reader_reg + 1, !.reader_reg = 0,
                        !.send_q = Append(@, client_uap.line),
                        !.reader_pc = "read"]

\* reader: after the loop, "if not qsize() or queue[-1] is not None" queues
\* None and then the last line again (a NameError that ends the thread when
\* no line was ever read); then bump_clock_event reads self.clock
uap_reader_tail ==
    /\ uap_alive
    /\ client_uap.reader_pc = "tail"
    /\ IF client_uap.send_q = <<>>
            \/ client_uap.send_q[Len(client_uap.send_q)] # None
       THEN IF client_uap.line = None
            THEN client_uap' = [client_uap EXCEPT
                                  !.send_q = Append(@, None),
                                  !.reader_pc = "died"]
            ELSE client_uap' = [client_uap EXCEPT
                                  !.send_q = @ \o <<None, client_uap.line>>,
                                  !.reader_reg = client_uap.clock,
                                  !.reader_pc = "tail_store"]
       ELSE client_uap' = [client_uap EXCEPT
                             !.reader_reg = client_uap.clock,
                             !.reader_pc = "tail_store"]

\* reader: bump_clock_event writes self.clock and None is queued
uap_reader_tail_store ==
    /\ uap_alive
    /\ client_uap.reader_pc = "tail_store"
    /\ client_uap' = [client_uap EXCEPT
                        !.clock = client_uap.reader_reg + 1, !.reader_reg = 0,
                        !.send_q = Append(@, None),
                        !.reader_pc = "done"]

\* receiver: recvfrom returns data. A datagram unpack_header rejects is
\* skipped; on HELLO, ALIVE and GOODBYE bump_clock_recv reads self.clock; any
\* other command ends the session.
uap_receiver_recv(data) ==
    /\ uap_alive
    /\ client_uap.receiver_pc = "recv"
    /\ \E pkt \in {ClientUnpacked[data]} :
          IF pkt = None THEN UNCHANGED client_uap
          ELSE IF pkt.command \in {CMD_HELLO, CMD_ALIVE, CMD_GOODBYE}
          THEN /\ Max(client_uap.clock, pkt.clock) + 1 <= MaxThreadClock
               /\ client_uap' =
                     [client_uap EXCEPT
                        !.receiver_reg = Max(client_uap.clock, pkt.clock),
                        !.receiver_cmd = pkt.command,
                        !.hello_received = @ \/ pkt.command = CMD_HELLO,
                        !.receiver_pc = "store"]
          ELSE client_uap' = [client_uap EXCEPT !.running = FALSE]

\* receiver: bump_clock_recv writes self.clock; ALIVE clears
\* awaiting_alive, GOODBYE clears running
uap_receiver_store ==
    /\ uap_alive
    /\ client_uap.receiver_pc = "store"
    /\ client_uap' =
          [client_uap EXCEPT
             !.clock = client_uap.receiver_reg + 1,
             !.awaiting_alive = @ /\ client_uap.receiver_cmd # CMD_ALIVE,
             !.running = @ /\ client_uap.receiver_cmd # CMD_GOODBYE,
             !.receiver_reg = 0,
             !.receiver_cmd = CMD_HELLO,
             !.receiver_pc = "recv"]

\* receiver: "while self.running" ends the thread
uap_receiver_exit ==
    /\ uap_alive
    /\ client_uap.receiver_pc = "recv"
    /\ ~client_uap.running
    /\ client_uap' = [client_uap EXCEPT !.receiver_pc = "done"]

(***************************************************************************)
(* srikrishna/common/message.py: UAPMessage.                               *)
(***************************************************************************)
\* field widths in bytes of "!H B B I I I d"
HEADER_FORMAT == <<2, 1, 1, 4, 4, 4, 8>>

\* struct.calcsize(HEADER_FORMAT)
HEADER_SIZE == SumSeq(HEADER_FORMAT)

RECURSIVE Fits(_, _)
\* whether the unsigned integer n fits in w bytes (struct.pack raises
\* struct.error when it does not)
Fits(n, w) == IF w = 0 THEN n = 0 ELSE Fits(n \div 256, w - 1)

\* struct.unpack("!d", b) for the encoding of a whole number 0 <= t < 2^20
unpack_double(b) ==
    LET ex == b[1] * 16 + b[2] \div 16
        mant20 == (b[2] % 16) * 65536 + b[3] * 256 + b[4]
    IN  IF ex = 0 THEN 0
        ELSE Pow2(ex - 1023) + mant20 \div Pow2(20 - (ex - 1023))

\* field i of struct.unpack(HEADER_FORMAT, packet[:HEADER_SIZE]) as raw bytes
MessageField(packet, i) ==
    SubSeq(packet, SumSeq(SubSeq(HEADER_FORMAT, 1, i - 1)) + 1,
           SumSeq(SubSeq(HEADER_FORMAT, 1, i)))

\* UAPMessage.__init__ given a number for timestamp, when time.time() is t:
\* "timestamp or time.time()" takes the current time for a timestamp of 0
UAPMessage(command, seq, session_id, clock, timestamp, payload, t) ==
    [command |-> command, seq |-> seq, session_id |-> session_id,
     clock |-> clock,
     timestamp |-> IF timestamp = 0 THEN t ELSE timestamp,
     payload |-> payload]

\* UAPMessage.pack
UAPMessage_pack(m) ==
    IF ~(/\ Fits(m.command, HEADER_FORMAT[3]) /\ Fits(m.seq, HEADER_FORMAT[4])
         /\ Fits(m.session_id, HEADER_FORMAT[5]) /\ Fits(m.clock, HEADER_FORMAT[6]))
    THEN StructError
    ELSE BE(MAGIC, HEADER_FORMAT[1]) \o BE(VERSION, HEADER_FORMAT[2])
            \o BE(m.command, HEADER_FORMAT[3]) \o BE(m.seq, HEADER_FORMAT[4])
            \o BE(m.session_id, HEADER_FORMAT[5]) \o BE(m.clock, HEADER_FORMAT[6])
            \o pack_double(m.timestamp) \o m.payload

\* UAPMessage.unpack when time.time() is t
UAPMessage_unpack(packet, t) ==
    IF Len(packet) < HEADER_SIZE THEN None
    ELSE IF \/ Unsigned(MessageField(packet, 1)) # MAGIC
            \/ Unsigned(MessageField(packet, 2)) # VERSION
         THEN None
         ELSE UAPMessage(Unsigned(MessageField(packet, 3)),
                         Unsigned(MessageField(packet, 4)),
                         Unsigned(MessageField(packet, 5)),
                         Unsigned(MessageField(packet, 6)),
                         unpack_double(MessageField(packet, 7)),
                         SubSeq(packet, HEADER_SIZE + 1, Len(packet)), t)

(***************************************************************************)
(* One message through the encoder and the decoder of one program:         *)
(* "message" is UAPMessage of message.py, "client" is build_header and     *)
(* parse_packet of src/client.py, "threaded" is pack_header and            *)
(* unpack_header of srikrishna/Client/client.py (unpack_header has the     *)
(* same text in both servers). Between the two the datagram may be cut     *)
(* short or have its magic or version replaced.                            *)
(***************************************************************************)
CodecPrograms == {"message", "client", "threaded"}

\* the values time.time() returns while a message is encoded and decoded
CodecNow == {1, 2}

\* the fields handed to an encoder
CodecMessages ==
    [command : CMD_HELLO..CMD_GOODBYE, seq : {0, MaxField}, session_id : {1, MaxField},
     clock : {0, MaxField}, timestamp : {0, 1, MaxField}, payload : {<<>>, <<120, 10>>}]

\* the lengths a datagram is cut to
CutLengths == {0, HEADER_SIZE, HEADER_SIZE + 2, HDR_SIZE - 1}

\* no message under way
codec_idle ==
    [program |-> "none", pc |-> "idle", msg |-> None, wire |-> <<>>,
     intact |-> TRUE, out |-> None]

\* the encoder of the program at time t
encode(program, m, t) ==
    IF program = "message"
    THEN UAPMessage_pack(UAPMessage(m.command, m.seq, m.session_id, m.clock,
                                    m.timestamp, m.payload, t))
    ELSE IF program = "client"
    THEN build_header(MAGIC, VERSION, m.command, m.seq, m.session_id, m.clock,
                      m.timestamp) \o m.payload
    ELSE client_pack_header(m.command, m.seq, m.session_id, m.clock, m.payload)

\* the decoder of the program at time t
decode(program, data, t) ==
    IF program = "message" THEN UAPMessage_unpack(data, t)
    ELSE IF program = "client" THEN parse_packet(data)
    ELSE unpack_header(data)

\* the sender encodes the message
codec_encode ==
    /\ codec.pc = "args"
    /\ \E t \in CodecNow :
         codec' = [codec EXCEPT !.pc = "wire",
                                !.wire = encode(codec.program, codec.msg, t)]
    /\ UNCHANGED besideCodec

\* the datagram arrives cut to n bytes
codec_cut(n) ==
    /\ codec.pc = "wire"
    /\ codec.intact
    /\ n < Len(codec.wire)
    /\ codec' = [codec EXCEPT !.wire = SubSeq(@, 1, n), !.intact = FALSE]
    /\ UNCHANGED besideCodec

\* the datagram arrives with another magic, or with another version
codec_corrupt ==
    /\ codec.pc = "wire"
    /\ codec.intact
    /\ \E w \in {BE(BAD_MAGIC, 2) \o SubSeq(codec.wire, 3, Len(codec.wire)),
                 SubSeq(codec.wire, 1, 2) \o BE(BAD_VERSION, 1)
                     \o SubSeq(codec.wire, 4, Len(codec.wire))} :
         codec' = [codec EXCEPT !.wire = w, !.intact = FALSE]
    /\ UNCHANGED besideCodec

\* the receiver decodes the datagram
codec_decode ==
    /\ codec.pc = "wire"
    /\ \E t \in CodecNow :
         codec' = [codec EXCEPT !.pc = "decoded",
                                !.out = decode(codec.program, codec.wire, t)]
    /\ UNCHANGED besideCodec

(***************************************************************************)
(* Specifications.                                                         *)
(***************************************************************************)
\* a server that has just been constructed
ServerIdle ==
    /\ sessions = <<>>
    /\ server_seq = 0
    /\ server_clock = 0
    /\ now = 0
    /\ sent = <<>>
    /\ console = <<>>

\* the module globals of src/client.py as main() leaves them before
\* asyncio.run: main() sets the event and draws SESSION_ID
ClientIdle ==
    /\ state = START
    /\ SEQUENCE_NUMBER = 0
    /\ CLIENT_LOGICAL_CLOCK = 0
    /\ NUMBER_OF_SERVER_MESSAGE = 0
    /\ SESSION_ID \in SIDs
    /\ STOP_READING = FALSE
    /\ event = TRUE
    /\ pc = "start"
    /\ input_task = "none"
    /\ socket_task = "none"
    /\ reader_task = "none"
    /\ timer_socket_task = "none"
    /\ result = <<>>
    /\ c_sent = <<>>
    /\ last_rx = <<>>

\* a Client as __init__ leaves it, run() not yet called
ThreadIdle ==
    /\ self_seq = 0
    /\ self_clock = 0
    /\ self_running = TRUE
    /\ self_hello_ack = FALSE
    /\ self_send_q = <<>>
    /\ self_session_id \in SIDs
    /\ pending_packets = <<>>
    /\ main_pc = "hello"
    /\ main_step = "load"
    /\ main_reg = 0
    /\ reader_pc = "read"
    /\ reader_line = <<>>
    /\ reader_reg = 0
    /\ receiver_pc = "recv"
    /\ receiver_reg = 0
    /\ receiver_cmd = CMD_HELLO
    /\ t_sent = <<>>

\* every input of at most n lines
RECURSIVE Inputs(_)
Inputs(n) ==
    IF n = 0 THEN {<<>>}
    ELSE Inputs(n - 1) \cup {Append(i, l) : i \in Inputs(n - 1), l \in Lines}

\* either server program, any datagram from any address at any time, the
\* sweeper once a second
InitServer ==
    /\ impl \in {"server", "server_uap"}
    /\ ServerIdle
    /\ ClientIdle
    /\ SESSION_ID = 1
    /\ stdin = <<>>
    /\ interactive = TRUE
    /\ ThreadIdle
    /\ self_session_id = 1
    /\ t_stdin = <<>>
    /\ client_uap = uap_init(<<>>)
    /\ channel = channel_init(1, "a")
    /\ codec = codec_idle

NextServer ==
    \/ \E data \in ServerDatagrams, addr \in Addrs : Deliver(data, addr)
    \/ now < MaxTime /\ check_timeouts

\* the asyncio client on any input, typed or read from a file, any datagram
\* arriving whenever the client reads its socket, any timeout expiring
InitClient ==
    /\ impl = "client"
    /\ ServerIdle
    /\ ClientIdle
    /\ stdin \in Inputs(MaxLines)
    /\ interactive \in BOOLEAN
    /\ ThreadIdle
    /\ self_session_id = 1
    /\ t_stdin = <<>>
    /\ client_uap = uap_init(<<>>)
    /\ channel = channel_init(1, "a")
    /\ codec = codec_idle

NextClient ==
    \/ (run_start /\ UNCHANGED besideClient)
    \/ \E data \in ClientDatagrams : run_hello_wait(data) /\ UNCHANGED besideClient
    \/ (run_hello_wait_timeout /\ UNCHANGED besideClient)
    \/ (wait_for_one_input_wake /\ UNCHANGED besideClient)
    \/ (wait_for_one_input /\ UNCHANGED besideClient)
    \/ \E data \in ClientDatagrams : read_socket_ready(data) /\ UNCHANGED besideClient
    \/ (run_ready_cancel /\ UNCHANGED besideClient)
    \/ (run_ready /\ UNCHANGED besideClient)
    \/ (read_input_and_send /\ UNCHANGED besideClient)
    \/ \E data \in ClientDatagrams :
            read_socket_ready_timer(data) /\ UNCHANGED besideClient
    \/ (run_ready_timer /\ UNCHANGED besideClient)
    \/ (run_ready_timer_timeout /\ UNCHANGED besideClient)
    \/ \E data \in ClientDatagrams : run_closing(data) /\ UNCHANGED besideClient
    \/ (run_closing_timeout /\ UNCHANGED besideClient)

\* the threaded client on any input, its three threads interleaved in any
\* way, any datagram arriving at any time
InitThreaded ==
    /\ impl = "threaded"
    /\ ServerIdle
    /\ ClientIdle
    /\ SESSION_ID = 1
    /\ stdin = <<>>
    /\ interactive = TRUE
    /\ ThreadIdle
    /\ t_stdin \in Inputs(MaxThreadLines)
    /\ client_uap = uap_init(<<>>)
    /\ channel = channel_init(1, "a")
    /\ codec = codec_idle

NextThreaded ==
    \/ (main_bump_load /\ UNCHANGED besideThreaded)
    \/ (main_bump_store /\ UNCHANGED besideThreaded)
    \/ (main_send /\ UNCHANGED besideThreaded)
    \/ (main_wait_ack /\ UNCHANGED besideThreaded)
    \/ (main_top /\ UNCHANGED besideThreaded)
    \/ (main_collect /\ UNCHANGED besideThreaded)
    \/ (main_flushed /\ UNCHANGED besideThreaded)
    \/ (main_close /\ UNCHANGED besideThreaded)
    \/ (reader_read /\ UNCHANGED besideThreaded)
    \/ (reader_store /\ UNCHANGED besideThreaded)
    \/ (reader_tail /\ UNCHANGED besideThreaded)
    \/ (reader_tail_store /\ UNCHANGED besideThreaded)
    \/ \E data \in ClientDatagrams :
            receiver_recv(data) /\ UNCHANGED besideThreaded
    \/ (receiver_store /\ UNCHANGED besideThreaded)
    \/ (receiver_exit /\ UNCHANGED besideThreaded)

\* a server and its sweeper watched over the time it takes a session to
\* expire: a HELLO or a first DATA of any session from any address while the
\* clients still send, the sweeper once a second
SweepDatagrams ==
    {d \in WellFormed :
        /\ Unpacked[d].command \in {CMD_HELLO, CMD_DATA}
        /\ Unpacked[d].seq = 0
        /\ Unpacked[d].clock = 0
        /\ Unpacked[d].payload = <<>>}

Sweep == now < SweepEnd(impl) /\ check_timeouts

NextSweeper ==
    \/ \E data \in SweepDatagrams, addr \in Addrs :
            now < SilentFrom(impl) /\ Deliver(data, addr)
    \/ Sweep

\* client_uap.py on any input, its three threads interleaved in any way,
\* any datagram arriving at any time
InitUap ==
    /\ impl = "client_uap"
    /\ ServerIdle
    /\ ClientIdle
    /\ SESSION_ID = 1
    /\ stdin = <<>>
    /\ interactive = TRUE
    /\ ThreadIdle
    /\ self_session_id = 1
    /\ t_stdin = <<>>
    /\ client_uap \in {uap_init(i) : i \in Inputs(MaxThreadLines)}
    /\ channel = channel_init(1, "a")
    /\ codec = codec_idle

NextUap ==
    \/ (uap_bump_load /\ UNCHANGED besideUap)
    \/ (uap_bump_store /\ UNCHANGED besideUap)
    \/ (uap_send /\ UNCHANGED besideUap)
    \/ (uap_loop /\ UNCHANGED besideUap)
    \/ (uap_timeout /\ UNCHANGED besideUap)
    \/ (uap_close /\ UNCHANGED besideUap)
    \/ (uap_reader_read /\ UNCHANGED besideUap)
    \/ (uap_reader_store /\ UNCHANGED besideUap)
    \/ (uap_reader_tail /\ UNCHANGED besideUap)
    \/ (uap_reader_tail_store /\ UNCHANGED besideUap)
    \/ \E data \in ClientDatagrams :
            uap_receiver_recv(data) /\ UNCHANGED besideUap
    \/ (uap_receiver_store /\ UNCHANGED besideUap)
    \/ (uap_receiver_exit /\ UNCHANGED besideUap)

vars == <<serverVars, clientVars, threadVars, client_uap, channel, codec>>

SpecServer == InitServer /\ [][NextServer]_vars

SpecClient == InitClient /\ [][NextClient]_vars

SpecThreaded == InitThreaded /\ [][NextThreaded]_vars

SpecUap == InitUap /\ [][NextUap]_vars

\* either server program and one client behind a channel that may drop a
\* DATA but neither reorders nor duplicates
InitChannel ==
    /\ impl \in {"server", "server_uap"}
    /\ ServerIdle
    /\ ClientIdle
    /\ SESSION_ID = 1
    /\ stdin = <<>>
    /\ interactive = TRUE
    /\ ThreadIdle
    /\ self_session_id = 1
    /\ t_stdin = <<>>
    /\ client_uap = uap_init(<<>>)
    /\ \E sid \in SIDs, addr \in Addrs : channel = channel_init(sid, addr)
    /\ codec = codec_idle

NextChannel ==
    \/ channel_drop
    \/ \E data \in WellFormed : channel_deliver(data)

SpecChannel == InitChannel /\ [][NextChannel]_vars

\* any message through any of the three encoder / decoder pairs
InitCodec ==
    /\ impl = "codec"
    /\ ServerIdle
    /\ ClientIdle
    /\ SESSION_ID = 1
    /\ stdin = <<>>
    /\ interactive = TRUE
    /\ ThreadIdle
    /\ self_session_id = 1
    /\ t_stdin = <<>>
    /\ client_uap = uap_init(<<>>)
    /\ channel = channel_init(1, "a")
    /\ \E program \in CodecPrograms, m \in CodecMessages :
         codec = [codec_idle EXCEPT !.program = program, !.pc = "args", !.msg = m]

NextCodec ==
    \/ codec_encode
    \/ \E n \in CutLengths : codec_cut(n)
    \/ codec_corrupt
    \/ codec_decode

SpecCodec == InitCodec /\ [][NextCodec]_vars

\* the steps of the main thread, of the reader thread and of the receiver
\* thread once recvfrom has returned
ThreadedMain ==
    /\ \/ main_bump_load \/ main_bump_store \/ main_send \/ main_wait_ack
       \/ main_top \/ main_collect \/ main_flushed \/ main_close
    /\ UNCHANGED besideThreaded

ThreadedReader ==
    /\ reader_read \/ reader_store \/ reader_tail \/ reader_tail_store
    /\ UNCHANGED besideThreaded

ThreadedReceiver ==
    /\ receiver_store \/ receiver_exit
    /\ UNCHANGED besideThreaded

\* the threaded client with its three threads scheduled fairly, an input
\* that yields its lines and then ends, and a network that may deliver
\* nothing: no step of a thread that can run is put off for ever, while the
\* arrival of a datagram is never forced
SpecThreadedFair ==
    /\ InitThreaded
    /\ [][NextThreaded]_vars
    /\ WF_vars(ThreadedMain)
    /\ WF_vars(ThreadedReader)
    /\ WF_vars(ThreadedReceiver)

\* the asyncio client with its event loop running every coroutine that can
\* run and every timeout expiring, the arrival of a datagram never forced
ClientLocal ==
    /\ \/ run_start \/ run_hello_wait_timeout \/ wait_for_one_input_wake
       \/ wait_for_one_input \/ run_ready_cancel \/ run_ready
       \/ read_input_and_send \/ run_ready_timer \/ run_ready_timer_timeout
       \/ run_closing_timeout
    /\ UNCHANGED besideClient

SpecClientFair == InitClient /\ [][NextClient]_vars /\ WF_vars(ClientLocal)

\* check_timeouts is a task of the event loop that sleeps one second and
\* runs again, for ever: it is never starved
SpecSweeper == InitServer /\ [][NextSweeper]_vars /\ WF_vars(Sweep)


(***************************************************************************)
(* Reading a handler run.                                                  *)
(***************************************************************************)
\* the command byte of an encoded packet (field 3 of the header)
CommandOf(data) == data[Offset(3) + 1]

\* how many of the packets in out carry command cmd
NumSent(out, cmd) == Len(SelectSeq(out, LAMBDA m : CommandOf(m.data) = cmd))

\* how many of the printed lines are of kind ev
NumLines(lines, ev) == Len(SelectSeq(lines, LAMBDA l : l.ev = ev))

\* what the running server would do with datagram d from address a now
Result(d, a) == Handle(impl, Here, d, a, now)

\* the server fields a handler run leaves
After(r) == [sessions |-> r.sessions, server_seq |-> r.server_seq,
             server_clock |-> r.server_clock]

\* the well-formed datagrams with command c for a session id that is in the
\* table / not in the table
ForExisting(c) ==
    {d \in WellFormed : Unpacked[d].command = c /\ Has(sessions, Unpacked[d].session_id)}


(***************************************************************************)
(* Claims about the servers (checked under SpecServer).                    *)
(***************************************************************************)
\* C2: a handler run that processed a DATA as in-order or gap-closing (it
\* printed the payload) or as a duplicate sent exactly one ALIVE, and a run
\* that processed a stale DATA sent no ALIVE.
C2_OneAlivePerData ==
    /\ (NumLines(console, "payload") = 1 \/ NumLines(console, "duplicate") = 1)
            => NumSent(sent, CMD_ALIVE) = 1
    /\ NumLines(console, "old_packet") = 1 => NumSent(sent, CMD_ALIVE) = 0

\* C3: a handler run that created a session on a HELLO with sequence s left
\* the session with expected = s + 1, the sender's address and last_seen =
\* now, and sent one HELLO; a DATA at s + 1 is then processed as in-order.
C3_HelloCreatesSession ==
    NumLines(console, "session_created") = 1 =>
        LET sid == console[1].sid
            s == console[1].seq
            first == Encode(MAGIC, VERSION, CMD_DATA, s + 1, sid, MaxPktClock,
                            pack_double(0), <<>>)
        IN  /\ Has(sessions, sid)
            /\ Get(sessions, sid).expected = s + 1
            /\ Get(sessions, sid).last_seen = now
            /\ Len(sent) = 1
            /\ CommandOf(sent[1].data) = CMD_HELLO
            /\ Get(sessions, sid).addr = sent[1].dst
            /\ first \in ServerDatagrams =>
                   Result(first, sent[1].dst).console = <<Line("payload", sid, s + 1, <<>>)>>

\* C4: for every DATA whose sequence s equals the session's expected, the
\* handler prints the payload once (and nothing else) and leaves expected at
\* s + 1.
C4_InOrderAdvances ==
    \A d \in ForExisting(CMD_DATA), a \in Addrs :
        LET pkt == Unpacked[d]
            sid == pkt.session_id
        IN  pkt.seq = Get(sessions, sid).expected =>
              \A r \in {Result(d, a)} :
                /\ r.console = <<Line("payload", sid, pkt.seq, rstrip_nl(pkt.payload))>>
                /\ Has(r.sessions, sid)
                /\ Get(r.sessions, sid).expected = pkt.seq + 1

\* C4 witness: an in-order DATA has just been processed.
C4_Witness ==
    /\ Len(console) = 1
    /\ console[1].ev = "payload"
    /\ Has(sessions, console[1].sid)
    /\ Get(sessions, console[1].sid).expected = console[1].seq + 1
    /\ console[1].seq > 0

\* C5: for every DATA with seq = expected + N, N >= 1, the handler prints
\* "Lost packet" once for each number of [expected, seq), in order, then the
\* payload once, and leaves expected at seq + 1.
C5_GapLostLines ==
    \A d \in ForExisting(CMD_DATA), a \in Addrs :
        LET pkt == Unpacked[d]
            sid == pkt.session_id
            exp == Get(sessions, sid).expected
            n == pkt.seq - exp
        IN  n >= 1 =>
              \A r \in {Result(d, a)} :
                /\ Len(r.console) = n + 1
                /\ \A i \in 1..n : r.console[i] = Line("lost", sid, exp + i - 1, <<>>)
                /\ r.console[n + 1] = Line("payload", sid, pkt.seq, rstrip_nl(pkt.payload))
                /\ Has(r.sessions, sid)
                /\ Get(r.sessions, sid).expected = pkt.seq + 1

\* C5 witness: a gap of two numbers has just been closed.
C5_Witness ==
    /\ NumLines(console, "lost") = 2
    /\ NumLines(console, "payload") = 1
    /\ NumSent(sent, CMD_ALIVE) = 1

\* C6: when a DATA is delivered to a session on which no DATA was processed
\* before (its lines start at sequence 0, the expected of a new session) and
\* the next handler run processes a DATA of the same session and sequence,
\* the two runs print one payload and one "Duplicate", send two ALIVE, and
\* the second leaves expected unchanged.
C6_DuplicatePair ==
    [][ \A sid \in SIDs :
          ( /\ NumLines(console, "payload") = 1
            /\ console[1].sid = sid
            /\ console[1].seq = 0
            /\ console' # <<>>
            /\ console'[1].sid = sid
            /\ console'[1].ev \in {"payload", "duplicate", "lost", "old_packet"}
            /\ console'[Len(console')].seq = console[Len(console)].seq )
          => ( /\ NumLines(console', "payload") = 0
               /\ NumLines(console', "duplicate") = 1
               /\ NumSent(sent, CMD_ALIVE) = 1
               /\ NumSent(sent', CMD_ALIVE) = 1
               /\ Has(sessions', sid)
               /\ Get(sessions', sid).expected = Get(sessions, sid).expected )
      ]_vars

\* the well-formed datagrams of a session id that are not a HELLO
NonHello ==
    [sid \in SIDs |->
        {d \in WellFormed :
            Unpacked[d].session_id = sid /\ Unpacked[d].command # CMD_HELLO}]

\* C7: for every stale DATA (seq < expected - 1) the handler sends exactly
\* one packet, a GOODBYE, prints no payload and removes the session; and once
\* a handler run has closed a session on a stale DATA, every non-HELLO
\* datagram with that session id is answered by nothing and changes neither
\* the table nor the sequence counter.
C7_StaleCloses ==
    /\ \A d \in ForExisting(CMD_DATA), a \in Addrs :
          LET pkt == Unpacked[d]
              sid == pkt.session_id
          IN  pkt.seq < Get(sessions, sid).expected - 1 =>
                \A r \in {Result(d, a)} :
                  /\ Len(r.sent) = 1
                  /\ NumSent(r.sent, CMD_GOODBYE) = 1
                  /\ NumLines(r.console, "payload") = 0
                  /\ ~Has(r.sessions, sid)
    /\ NumLines(console, "old_packet") = 1 =>
          \A d2 \in NonHello[console[1].sid], a2 \in Addrs :
              \A r2 \in {Result(d2, a2)} :
                  /\ r2.sent = <<>>
                  /\ r2.sessions = sessions
                  /\ r2.server_seq = server_seq

\* C7 witness: a stale DATA has just closed a session.
C7_Witness ==
    /\ NumLines(console, "old_packet") = 1
    /\ NumSent(sent, CMD_GOODBYE) = 1
    /\ ~Has(sessions, console[1].sid)

\* C8: for an existing session, a GOODBYE, a HELLO, an ALIVE or an unknown
\* command each make the handler send exactly one packet, a GOODBYE, and
\* remove the session; once "GOODBYE from client" is printed for a session
\* the table holds no entry for it.
C8_CloseOnCommand ==
    /\ \A c \in {CMD_GOODBYE, CMD_HELLO, CMD_ALIVE, CMD_UNKNOWN} :
        \A d \in ForExisting(c), a \in Addrs :
            \A r \in {Result(d, a)} :
                /\ Len(r.sent) = 1
                /\ NumSent(r.sent, CMD_GOODBYE) = 1
                /\ r.sent[1].dst = a
                /\ ~Has(r.sessions, Unpacked[d].session_id)
                /\ Len(r.sessions) = Len(sessions) - 1
    /\ NumLines(console, "goodbye_from_client") = 1 => ~Has(sessions, console[1].sid)

\* C8 witness: a HELLO for an existing session has just closed it, another
\* session staying in the table.
C8_Witness ==
    /\ NumLines(console, "unexpected_cmd") = 1
    /\ console[1].seq = CMD_HELLO
    /\ NumSent(sent, CMD_GOODBYE) = 1
    /\ ~Has(sessions, console[1].sid)
    /\ sessions # <<>>

\* C9: for every well-formed non-HELLO datagram whose session id is not in
\* the table, the handler sends nothing and leaves the table (every entry's
\* expected, addr and last_seen) and the sequence counter as they were.
C9_UnknownSessionIgnored ==
    \A d \in WellFormed, a \in Addrs :
        LET pkt == Unpacked[d]
        IN  (pkt.command # CMD_HELLO /\ ~Has(sessions, pkt.session_id)) =>
              \A r \in {Result(d, a)} :
                /\ r.sent = <<>>
                /\ r.sessions = sessions
                /\ r.server_seq = server_seq

\* C9 witness: a datagram for an unknown session has just been ignored while
\* another session is in the table.
C9_Witness ==
    /\ NumLines(console, "unknown_session") = 1
    /\ sent = <<>>
    /\ sessions # <<>>
    /\ ~Has(sessions, console[1].sid)

(***************************************************************************)
(* Claims about the inactivity sweeper (checked under SpecSweeper).        *)
(***************************************************************************)
\* the positions of the sessions that are more than INACTIVITY_LIMIT old at
\* time t
Overdue(t) ==
    {i \in DOMAIN sessions : t - sessions[i].last_seen > INACTIVITY_LIMIT(impl)}

\* the session id a sent packet carries (field 5 of the header)
SessionOf(m) == Unsigned(Field(m.data, 5))

\* C11: a sweep (the step that moves the time on by a second) sends exactly
\* one packet, a GOODBYE, to the recorded address of every session that is
\* more than INACTIVITY_LIMIT old and nothing else, removes exactly those
\* sessions and leaves every other entry as it was; no session in the table
\* is ever more than INACTIVITY_LIMIT old once the sweep of that second has
\* run; and every session in the table is gone some time later once its
\* client is silent.
C11_SweepCloses ==
    /\ [][ now' # now =>
            /\ now' = now + 1
            /\ Len(sent') = Cardinality(Overdue(now'))
            /\ \A i \in Overdue(now') :
                  \E j \in DOMAIN sent' :
                    /\ SessionOf(sent'[j]) = sessions[i].sid
                    /\ CommandOf(sent'[j].data) = CMD_GOODBYE
                    /\ sent'[j].dst = sessions[i].addr
            /\ \A i \in DOMAIN sessions :
                  IF i \in Overdue(now') THEN ~Has(sessions', sessions[i].sid)
                  ELSE /\ Has(sessions', sessions[i].sid)
                       /\ Get(sessions', sessions[i].sid) = sessions[i]
            /\ Len(sessions') = Len(sessions) - Cardinality(Overdue(now'))
        ]_vars
    /\ [](Overdue(now) = {})
    /\ \A sid \in SIDs : Has(sessions, sid) ~> ~Has(sessions, sid)

\* a sweep has just closed one session for inactivity and kept another
C11_Witness ==
    /\ NumLines(console, "session_closed_timeout") = 1
    /\ NumSent(sent, CMD_GOODBYE) = 1
    /\ Len(sessions) = 1
    /\ ~Has(sessions, console[1].sid)

\* the last handler run processed a DATA of a session that lives on
KeptAlive ==
    /\ console # <<>>
    /\ console[1].ev \in {"payload", "duplicate", "lost"}
    /\ Has(sessions, console[1].sid)

\* the session the last handler run kept alive has last_seen = now
LastSeenIsReceipt == KeptAlive => Get(sessions, console[1].sid).last_seen = now

\* a sweep does not close the session the last handler run kept alive
SweeperSpares == (KeptAlive /\ now' # now) => Has(sessions', console[1].sid)

\* C12: a handler run that processed a packet of an existing session left
\* the session's last_seen at the time of receipt, and the sweep that follows
\* the receipt of a packet within the second does not close that session.
C12_LastSeenRefreshed == []LastSeenIsReceipt /\ [][SweeperSpares]_vars

\* the logical clock an encoded packet carries (field 6 of the header)
ClockOf(data) == Unsigned(Field(data, 6))

\* each packet of a send log carries a larger clock than the one before it
Increasing(log) ==
    \A i \in DOMAIN log : i > 1 => ClockOf(log[i - 1]) < ClockOf(log[i])

\* C13: of any two packets an endpoint sends one after the other the later
\* one carries the strictly larger logical clock: on server.py within one
\* handler run or sweep and from one run that sent to the next run (handler
\* or sweep) that sends, on the clients along all they have sent.
C13_StampsIncrease ==
    /\ [](impl = "server" => Increasing([i \in DOMAIN sent |-> sent[i].data]))
    /\ [][(impl = "server" /\ sent # <<>> /\ sent' # <<>>) =>
                ClockOf(sent[Len(sent)].data) < ClockOf(sent'[1].data)]_vars
    /\ [](Increasing(c_sent) /\ Increasing(t_sent))

(***************************************************************************)
(* Claims about the clients (checked under SpecClient).                    *)
(***************************************************************************)
\* the commands of the packets of a send log, in order
Commands(log) == [i \in DOMAIN log |-> CommandOf(log[i])]

\* the commands c are a prefix of a word of HELLO . DATA* . GOODBYE?: the
\* first, and only the first, is a HELLO, every other one is a DATA or a
\* GOODBYE, and a GOODBYE is the last one
HelloDataGoodbye(c) ==
    \A i \in DOMAIN c :
        /\ (i = 1) <=> (c[i] = CMD_HELLO)
        /\ c[i] \in {CMD_HELLO, CMD_DATA, CMD_GOODBYE}
        /\ c[i] = CMD_GOODBYE => i = Len(c)

\* C1: at every moment the commands of the packets a client has sent so far,
\* the asyncio client and the threaded client alike, are HELLO first and
\* once, then DATA only, and nothing after a GOODBYE.
C1_SendOrder ==
    /\ HelloDataGoodbye(Commands(c_sent))
    /\ HelloDataGoodbye(Commands(t_sent))

\* C14: a step of the asyncio client that sends a packet stamps it with the
\* clock as the tick of that send leaves it, one more than the clock the step
\* found; and in the threaded client no other thread changes the clock
\* between the main thread's tick and its stamping of the packet.
C14_StampIsPostTick ==
    /\ [][Len(c_sent') > Len(c_sent) =>
            ClockOf(c_sent'[Len(c_sent')]) = CLIENT_LOGICAL_CLOCK + 1]_vars
    /\ [][main_step = "send" => self_clock' = self_clock]_vars

\* a send log holds a DATA
HasData(log) == \E i \in DOMAIN log : CommandOf(log[i]) = CMD_DATA

\* C15: the asyncio client leaves HELLO_WAIT for READY on a HELLO and for
\* CLOSED on any other packet, sending nothing, or on the timeout for
\* CLOSING with one GOODBYE sent, and a client that has sent no DATA leaves
\* CLOSING for CLOSED only; and
\* no client (src/client.py, Client/client.py, Client/client_uap.py) has
\* sent a DATA unless it has received a packet, the server's HELLO.
C15_HelloWait ==
    /\ [][(state = HELLO_WAIT /\ state' # HELLO_WAIT) =>
            \/ /\ c_sent' = c_sent
               /\ last_rx' # <<>>
               /\ NUMBER_OF_SERVER_MESSAGE' = NUMBER_OF_SERVER_MESSAGE + 1
               /\ state' = IF CommandOf(last_rx') = CMD_HELLO THEN READY ELSE CLOSED
            \/ /\ Len(c_sent') = Len(c_sent) + 1
               /\ CommandOf(c_sent'[Len(c_sent')]) = CMD_GOODBYE
               /\ NUMBER_OF_SERVER_MESSAGE' = NUMBER_OF_SERVER_MESSAGE
               /\ state' = CLOSING]_vars
    /\ [][(state = CLOSING /\ ~HasData(c_sent)) => state' \in {CLOSING, CLOSED}]_vars
    /\ [](HasData(c_sent) => NUMBER_OF_SERVER_MESSAGE > 0)
    /\ [](HasData(t_sent) => self_hello_ack)
    /\ [](HasData(client_uap.sent) => client_uap.hello_received)

\* C16: the client that runs ends in CLOSED (the asyncio client with STATE =
\* CLOSED, the threaded client with run() returned and the socket closed),
\* and once there it stays there.
C16_EndsInClosed ==
    /\ impl = "threaded" => <>(main_pc = "closed")
    /\ impl = "client" => <>(state = CLOSED \/ pc = "crashed")
    /\ [][main_pc = "closed" => main_pc' = "closed"]_vars
    /\ [][state = CLOSED => state' = CLOSED]_vars

\* C17: a client of src/client.py that has received no packet enters CLOSED
\* from CLOSING only, has sent no DATA, and in CLOSED its run_closed ends by
\* exiting (os._exit(0)) and not by an exception.
C17_UnansweredHello ==
    /\ [][(state # CLOSED /\ state' = CLOSED /\ NUMBER_OF_SERVER_MESSAGE' = 0) =>
            state = CLOSING]_vars
    /\ []((state = CLOSED /\ NUMBER_OF_SERVER_MESSAGE = 0) =>
            (~HasData(c_sent) /\ pc = "exited"))

\* the DATA numbers the channel dropped before it delivered a later DATA
dropped_before_delivery ==
    {s \in channel.dropped :
        \E i \in DOMAIN channel.delivered : channel.delivered[i] > s}

\* C18: with HELLO sent at 0 and DATA at 1, 2, ... over a channel that only
\* drops, the "Lost packet" lines the server has printed name exactly the
\* DATA numbers dropped before a later DATA was delivered, each once; with
\* nothing dropped there is no such line; and expected is one more than the
\* last DATA delivered.
C18_LossyChannel ==
    LET lost == lost_numbers(channel.printed) IN
    /\ {lost[i] : i \in DOMAIN lost} = dropped_before_delivery
    /\ \A i, j \in DOMAIN lost : lost[i] = lost[j] => i = j
    /\ channel.dropped = {} => lost = <<>>
    /\ channel.delivered # <<>> =>
            /\ Has(sessions, channel.sid)
            /\ Get(sessions, channel.sid).expected =
                    channel.delivered[Len(channel.delivered)] + 1

\* the fields a decoder of message.py or of src/client.py hands back, in the
\* order command, seq, session id, clock, timestamp, payload
decoded_fields(program, out) ==
    IF program = "message"
    THEN <<out.command, out.seq, out.session_id, out.clock, out.timestamp,
           out.payload>>
    ELSE <<out.command, out.sequence_number, out.SESSION_ID, out.logical_clock,
           Unsigned(out.timestamp), out.payload>>

\* C19: a message encoded by message.py or by src/client.py and decoded by
\* the same program from the datagram as it was sent comes back with the
\* command, seq, session id, clock, timestamp and payload it was given.
C19_RoundTrip ==
    (codec.pc = "decoded" /\ codec.intact /\ codec.program \in {"message", "client"})
    => /\ codec.out \notin {None, StructError}
       /\ decoded_fields(codec.program, codec.out) =
              <<codec.msg.command, codec.msg.seq, codec.msg.session_id,
                codec.msg.clock, codec.msg.timestamp, codec.msg.payload>>

\* whether a datagram of at least n bytes starts with the magic 0xC461 and
\* the version 1
valid_prefix(data) ==
    /\ Unsigned(SubSeq(data, 1, 2)) = MAGIC
    /\ Unsigned(SubSeq(data, 3, 3)) = VERSION

InputEnded == state = CLOSING /\ pc \in {"ready", "ready_gather", "ready_timer"}

\* the packets of command cmd among those the step sends
SentNow(cmd) ==
    {i \in (Len(c_sent) + 1)..Len(c_sent') : CommandOf(c_sent'[i]) = cmd}

\* a step in which a readline of the client returns
ReadStep ==
    \/ stdin' # stdin
    \/ (input_task = "reading" /\ input_task' = "done")
    \/ (reader_task = "reading" /\ reader_task' = "done")

\* C21: a read that returns end-of-stream (or "q" at the terminal) sets
\* CLOSING and sends nothing, while "q" read from a file is sent as DATA; from
\* then until the handler has acted no DATA is sent; and the state next
\* changes to CLOSED, or stays CLOSING with exactly one GOODBYE sent: never
\* back to READY.
C21_EndOfInput ==
    /\ [][ReadStep
            => IF ends_input(readline(stdin), interactive)
               THEN state' = CLOSING /\ c_sent' = c_sent
               ELSE /\ Len(c_sent') = Len(c_sent) + 1
                    /\ SentNow(CMD_DATA) # {}
                    /\ SubSeq(c_sent'[Len(c_sent')], HDR_SIZE + 1,
                              Len(c_sent'[Len(c_sent')])) = readline(stdin)]_vars
    /\ [][InputEnded => SentNow(CMD_DATA) = {}]_vars
    /\ [][(InputEnded /\ ~InputEnded')
            => \/ (state' = CLOSED /\ c_sent' = c_sent)
               \/ /\ state' = CLOSING
                  /\ Len(c_sent') = Len(c_sent) + 1
                  /\ SentNow(CMD_GOODBYE) # {}
               \/ pc' = "crashed"]_vars

\* C22: while run_ready waits, a DATA is sent only by wait_for_one_input
\* returning a line, one DATA and once; a received ALIVE leaves STATE = READY;
\* once a packet that is not ALIVE has been received the client sends nothing
\* and its state changes to CLOSED only; and when run_ready ends with no
\* such packet received, a line read has taken the client to READY_TIMER
\* (the end of the input to CLOSING with one GOODBYE), and neither of the two
\* tasks is left pending.
C22_ReadyRace ==
    /\ [][(pc \in {"ready", "ready_gather"} /\ SentNow(CMD_DATA) # {})
            => /\ input_task = "reading"
               /\ input_task' = "done"
               /\ Len(c_sent') = Len(c_sent) + 1]_vars
    /\ [][(pc = "ready" /\ last_rx' # <<>> /\ CommandOf(last_rx') = CMD_ALIVE
             /\ NUMBER_OF_SERVER_MESSAGE' # NUMBER_OF_SERVER_MESSAGE)
            => (state' = state /\ socket_task' = "recv")]_vars
    /\ [][(pc \in {"ready", "ready_gather"} /\ socket_task = "done")
            => (c_sent' = c_sent /\ state' \in {state, CLOSED})]_vars
    /\ [][(pc = "ready_gather" /\ pc' # "ready_gather")
            => /\ input_task' \notin Pending \/ pc' = "ready"
               /\ socket_task' \notin Pending \/ pc' = "ready"
               /\ IF socket_task \in Finished THEN TRUE
                  ELSE IF state = CLOSING
                  THEN state' = CLOSING /\ SentNow(CMD_GOODBYE) # {}
                  ELSE state' = READY_TIMER /\ c_sent' = c_sent]_vars

\* C23: when run_ready_timer ends, a packet (of a full header) its socket
\* task received has taken the client to READY if it is ALIVE and to CLOSED if it is not,
\* nothing sent; with no packet received the client has sent exactly one
\* GOODBYE and is in CLOSING.
C23_ReadyTimer ==
    [][(pc = "ready_timer" /\ pc' \notin {"ready_timer", "crashed"})
        => IF timer_socket_task = "done"
           THEN Len(result) >= HDR_SIZE
                => /\ c_sent' = c_sent
                   /\ state' = IF CommandOf(result) = CMD_ALIVE THEN READY ELSE CLOSED
           ELSE /\ state' = CLOSING
                /\ Len(c_sent') = Len(c_sent) + 1
                /\ SentNow(CMD_GOODBYE) # {}]_vars

\* C24: while run_ready_timer waits (STATE = READY_TIMER) the client sends no
\* DATA and a read of the input does not change the state: lines and the end
\* of the input wait until an ALIVE has returned the client to READY.
C24_HeldInReadyTimer ==
    [][pc = "ready_timer"
        => /\ SentNow(CMD_DATA) = {}
           /\ ReadStep => state' = state]_vars

\* C25: while run_closing waits (STATE = CLOSING, GOODBYE sent) the client
\* sends nothing; an ALIVE it receives leaves it waiting in CLOSING, any other
\* packet takes it to CLOSED; and its state changes to CLOSED only.
C25_Closing ==
    [][pc = "closing"
        => /\ c_sent' = c_sent
           /\ state' \in {CLOSING, CLOSED}
           /\ (last_rx' # <<>> /\ NUMBER_OF_SERVER_MESSAGE' # NUMBER_OF_SERVER_MESSAGE)
                  => IF CommandOf(last_rx') = CMD_ALIVE
                     THEN state' = CLOSING /\ pc' = "closing"
                     ELSE state' = CLOSED]_vars

\* C26: in the running client the two tasks of run_ready are pending only
\* while run_ready waits, and the two tasks of run_ready_timer only while
\* run_ready_timer waits; and outside run_ready_timer no step of
\* read_input_and_send sends a packet or changes the state.
C26_NoDanglingTask ==
    /\ [](Running =>
            /\ pc \notin {"ready", "ready_gather"}
                  => (input_task \notin Pending /\ socket_task \notin Pending)
            /\ pc # "ready_timer"
                  => (reader_task \notin Pending /\ timer_socket_task \notin Pending))
    /\ [][(pc # "ready_timer" /\ reader_task = "reading" /\ reader_task' # "reading")
            => (c_sent' = c_sent /\ state' = state)]_vars

\* C27: whenever the received-packet count of the asyncio client changes it
\* grows by one, for the packet just received, and the clock becomes
\* max(local, r) + 1 for the clock r of that packet.
C27_CountedOnce ==
    [][NUMBER_OF_SERVER_MESSAGE' # NUMBER_OF_SERVER_MESSAGE
        => /\ NUMBER_OF_SERVER_MESSAGE' = NUMBER_OF_SERVER_MESSAGE + 1
           /\ last_rx' # <<>>
           /\ CLIENT_LOGICAL_CLOCK' =
                  Max(CLIENT_LOGICAL_CLOCK, ClockOf(last_rx')) + 1]_vars

\* A step in which one of the three threads writes self.clock: the second
\* half of bump_clock_event in main or reader, or of bump_clock_recv in
\* receiver.
ClockStore ==
    \/ (main_step = "store" /\ main_step' = "send")
    \/ (reader_pc = "store" /\ reader_pc' # "store")
    \/ (reader_pc = "tail_store" /\ reader_pc' = "done")
    \/ (receiver_pc = "store" /\ receiver_pc' = "recv")

\* C28: in the threaded client the logical clock never decreases, and no tick
\* is lost: every write of the clock by the main, reader or receiver thread
\* leaves it strictly above the value it had just before the write.
C28_ClockMonotone ==
    /\ [][self_clock' >= self_clock]_vars
    /\ [][ClockStore => self_clock' > self_clock]_vars

\* the sequence number an encoded packet carries (field 4 of the header)
SeqOf(data) == Unsigned(Field(data, 4))

\* C29: the server counter starts at 0; the packets of a handler run or of a
\* sweep carry, in send order, the values the counter went through during
\* the run, the last one being one below the counter the run left; and every
\* step raises the counter by the number of packets it sent, so the packets
\* the server sends carry 0, 1, 2, ... across all sessions, sweeper GOODBYEs
\* included.
C29_ServerSeq ==
    /\ server_seq = 0
    /\ [](\A i \in DOMAIN sent :
            SeqOf(sent[i].data) = server_seq - Len(sent) + i - 1)
    /\ [][server_seq' = server_seq + Len(sent')]_vars

\* a sweep has just closed two sessions: its two GOODBYEs carry 2 and 3
\* after the two HELLO replies of the sessions carried 0 and 1
C29_Witness ==
    /\ NumLines(console, "session_closed_timeout") = 2
    /\ Len(sent) = 2
    /\ CommandOf(sent[1].data) = CMD_GOODBYE
    /\ CommandOf(sent[2].data) = CMD_GOODBYE
    /\ SeqOf(sent[1].data) = 2
    /\ SeqOf(sent[2].data) = 3
    /\ server_seq = 4

\* the lines of a handler run that print a payload
PayloadLines(lines) == SelectSeq(lines, LAMBDA l : l.ev = "payload")

\* C30: while a session stays in the table its expected never decreases, and
\* a handler run prints at most one payload, for a session that was in the
\* table before the run and is in it after, whose sequence number is at least
\* the expected the run found and below the expected it leaves; so the
\* payloads of one session life carry strictly increasing sequence numbers
\* and none is printed twice, whatever datagrams arrive in whatever order.
C30_PayloadsIncrease ==
    /\ [][\A sid \in SIDs :
            (Has(sessions, sid) /\ Has(sessions', sid)) =>
                Get(sessions', sid).expected >= Get(sessions, sid).expected]_vars
    /\ [][\A p \in {PayloadLines(console')} :
            /\ Len(p) <= 1
            /\ Len(p) = 1 =>
                /\ Has(sessions, p[1].sid)
                /\ Has(sessions', p[1].sid)
                /\ Get(sessions, p[1].sid).expected <= p[1].seq
                /\ p[1].seq < Get(sessions', p[1].sid).expected]_vars

\* a session that had taken DATA 0 in order has just taken DATA 2: the run
\* printed one lost number and the payload of 2 and left expected at 3
C30_Witness ==
    /\ NumLines(console, "lost") = 1
    /\ console[1] = Line("lost", console[1].sid, 1, <<>>)
    /\ Len(PayloadLines(console)) = 1
    /\ PayloadLines(console)[1].seq = 2
    /\ Has(sessions, console[1].sid)
    /\ Get(sessions, console[1].sid).expected = 3

\* the GOODBYEs of a send list that carry session id sid
GoodbyesFor(out, sid) ==
    SelectSeq(out, LAMBDA m : CommandOf(m.data) = CMD_GOODBYE /\ SessionOf(m) = sid)

\* C31: a handler run (a step that leaves the time alone) sends at most one
\* packet; and in every step, handler run or sweep, the GOODBYEs sent for a
\* session id are exactly one if the step removes an entry of that id that
\* was in the table and none otherwise. An entry the handler closed is gone
\* before the sweeper looks, and an entry the sweeper closed is gone before
\* the next datagram, so no entry is closed twice and the sweeper closes
\* nothing that is not in the table.
C31_ClosedOnce ==
    /\ [][now' = now => Len(sent') <= 1]_vars
    /\ [][\A sid \in SIDs :
            Len(GoodbyesFor(sent', sid)) =
                IF Has(sessions, sid) /\ ~Has(sessions', sid) THEN 1 ELSE 0]_vars

\* the sweep of the second in which the only session would have become
\* overdue has just run and sent nothing: the handler had closed the session
\* (its HELLO reply and the handler's GOODBYE are the two packets sent)
C31_Witness ==
    /\ impl = "server"
    /\ now = SilentFrom(impl)
    /\ sessions = <<>>
    /\ server_seq = 2
    /\ sent = <<>>
    /\ console = <<>>

\* C32: a handler run that replies to an address other than the one
\* recorded for the session id of its reply (the reply goes to the source of
\* the datagram and carries the datagram's session id) leaves the entry of
\* that session as it was: same expected, same last_seen, still in the table.
C32_OnlyOwner ==
    [][\A sid \in SIDs :
          (/\ now' = now
           /\ Has(sessions, sid)
           /\ sent' # <<>>
           /\ SessionOf(sent'[1]) = sid
           /\ sent'[1].dst # Get(sessions, sid).addr)
          => (/\ Has(sessions', sid)
              /\ Get(sessions', sid) = Get(sessions, sid))]_vars

\* C10: a server handed a datagram that is short, or of wrong magic or
\* version, sends nothing and keeps its sessions, its clock and its sequence
\* counter; and the last datagram the client acted on (it changed the
\* client's clock, counters or state) has magic 0xC461 and version 1.
C10_MalformedDiscarded ==
    /\ \A d \in Malformed, a \in Addrs :
          \A r \in {Result(d, a)} :
            /\ r.sent = <<>>
            /\ After(r) = Here
    /\ last_rx # <<>> =>
            /\ Len(last_rx) >= HDR_SIZE
            /\ Unsigned(Field(last_rx, 1)) = MAGIC
            /\ Unsigned(Field(last_rx, 2)) = VERSION

=============================================================================
